---- MODULE Spec2Model ----
(***************************************************************************)
(* iRacing results bot: the rate-limited, token-aware API access layer     *)
(* (iRacingApi.py), the race de-duplication (getLastRaceIfNew), the        *)
(* polling scheduler and the interactive commands (bot.py).                *)
(*                                                                         *)
(* Granularity.  Code that runs on the event loop is atomic between two    *)
(* awaits.  A function run in the thread pool (run_in_executor) is cut at  *)
(* its blocking network operations: the OAuth exchange and every provider  *)
(* data call.  A job's pc names the reply it is blocked on; one action is  *)
(* "the reply arrives and the thread runs on to its next request or to its *)
(* return".  Other threads and the event loop interleave in between.       *)
(***************************************************************************)
EXTENDS Integers, Sequences, FiniteSets, TLC

(***************************************************************************)
(* Bounds of the model                                                     *)
(***************************************************************************)
MaxTime == 120          \* the clock stops advancing here
MaxTimeCommands == 60   \* the same, in the runs with addUser commands
MaxTimeTracker == 3700  \* the same, in the runs of the tracker alone
MaxRows == 2            \* rows of user_channels
MaxCommands == 1        \* addUser commands issued in one run
MaxAdds == 3            \* the same, in the runs of the subscription commands
MaxTimeCars == 5400     \* the clock's end in the runs that outlive the car cache
MaxRetriesArg == 4       \* largest max_retries given to retry_on_transient_error
MaxTimeRecovery == 180  \* the clock's end in the runs that outlive a block
ThrottleEnd == 0        \* the OAuth endpoint throttles up to this time, not later

(***************************************************************************)
(* Program constants                                                       *)
(***************************************************************************)
LoopInterval == 60          \* @tasks.loop(seconds=60)
max_workers == 3            \* ThreadPoolExecutor(max_workers=3)
RateLimitBuffer == 10       \* current_time + resets_in + 10
DefaultRetryAfter == 60     \* retry_after default
DefaultResetsIn == 3600     \* resets_in default
HandlerBuffer == 5          \* asyncio.sleep(remaining + 5)
HandlerMaxRetries == 3      \* max_retries = 3
DefaultMaxRetries == 4      \* retry_on_transient_error(max_retries=4, ...)
DefaultBaseDelay == 60      \* retry_on_transient_error(..., base_delay=60)
DefaultExpiresIn == 86400   \* tokens.get("expires_in", 86400)
TokenSafetyMargin == 300    \* expires_in - 300
CARS_CACHE_DURATION == 3600

(***************************************************************************)
(* Value universes                                                         *)
(***************************************************************************)
Users == {"u1", "u2"}
Channels == {"c1", "c2"}
Timestamps == {"T1", "T2"}          \* session_start_time strings
Handles == {"h1", "h2", "h3", "h4", "h5"}   \* irDataClient objects
WrapperIds == {"w1", "w2", "w3", "w4"}      \* _AuthenticatedClientWrapper objects
ProviderTokens == {"tokA"}          \* access tokens the OAuth endpoint hands out
TickSteps == {60}                   \* seconds by which the clock is observed to advance
TrackerSteps == {10, 3600}          \* the same, in the runs of the tracker alone
CarsSteps == {1800}                 \* the same, in the runs that outlive the car cache
RecoverySteps == {60}               \* the same, in the runs that outlive a block
Slots == 1..max_workers             \* worker threads of the executor
None == "none"

Max(a, b) == IF a >= b THEN a ELSE b

(***************************************************************************)
(* The provider's OAuth error payloads (response.text), abstracted to what *)
(* _parse_rate_limit_error reads: whether the text is JSON, and the two    *)
(* numbers of error_description when their phrases are present (-1: the    *)
(* phrase is missing).                                                     *)
(***************************************************************************)
Payloads ==
    { [json |-> TRUE,  retry |-> 60,  reset |-> 60],
      [json |-> TRUE,  retry |-> 120, reset |-> 3600],
      [json |-> TRUE,  retry |-> -1,  reset |-> -1],
      [json |-> FALSE, retry |-> -1,  reset |-> -1] }

\* What an HTTP 401 of the OAuth endpoint carries when its error_description
\* holds "rate limit exceeded": JSON, with or without the two phrases.
RateLimitPayloads ==
    { [json |-> TRUE, retry |-> 60, reset |-> 60],
      [json |-> TRUE, retry |-> -1, reset |-> -1] }

NoPayload == [json |-> TRUE, retry |-> -1, reset |-> -1]

\* Outcomes of requests.post(TOKEN_URL): 200 with a token; 401 "rate limit
\* exceeded"; anything else (another 401, another status, a timeout).
\* expires_in: the field of the token reply, -1 when the reply has none.
OAuthReplies ==
    { [kind |-> "ok", token |-> t, expires_in |-> -1, payload |-> NoPayload] :
          t \in ProviderTokens }
    \cup { [kind |-> "rate_limit", token |-> None, expires_in |-> -1, payload |-> p] :
              p \in RateLimitPayloads }
    \cup { [kind |-> "fail", token |-> None, expires_in |-> -1, payload |-> NoPayload] }

(***************************************************************************)
(* Replies of a provider data call.  kind: "ok" a usable result; "empty" a *)
(* well-formed reply without the expected data (no races, None, driver not *)
(* in the session); "token" AccessTokenInvalid; "json" JSONDecodeError;    *)
(* "error" any other exception.  race: the most recent race's              *)
(* session_start_time (recent-races call).  good: whether the later pure   *)
(* processing of the data (formatting, chart drawing) succeeds.            *)
(***************************************************************************)
CallReplies ==
    { [kind |-> "ok", race |-> t, good |-> g] : t \in Timestamps, g \in BOOLEAN }
    \cup { [kind |-> k, race |-> None, good |-> FALSE] : k \in {"empty", "token", "json", "error"} }

VARIABLES
    now,                  \* time.time(), whole seconds
    env_token,            \* os.environ: IRACING_TOKEN / IRACING_TOKEN_EXPIRES as loaded at import
    file_token,           \* the same two lines of the .env file
    client,               \* iRacingApi._client_manager._client
    token,                \* iRacingApi._client_manager._token
    wrapped_client,       \* iRacingApi._client_manager._wrapped_client
    rate_limit_until,     \* iRacingApi._client_manager._rate_limit_until
    rate_limit_reset,     \* iRacingApi._client_manager._rate_limit_reset
    aw_rate_limit_until,  \* iRacingAuthWrapper._client_manager._rate_limit_until
    wrappers,             \* wrapper object -> the handle it holds (_client)
    cars_cache,           \* _cars_cache
    cars_cache_time,      \* _cars_cache_time
    user_channels,        \* the table user_channels, in rowid order
    jobs,                 \* the executor's worker threads
    sched,                \* the coroutine startLoopForUpdates / processAndPostRace
    cmd,                  \* the coroutine of an interactive command
    posted,               \* history: the last result delivered per (user, channel)
    ev,                   \* history: what the last step did towards Discord and the log
    lap_chart,            \* getLapsChart's provider data, and what its last run drew from them
    decorated,            \* one call of a function wrapped by a decorator of rateLimit.py
    race_plot,            \* the file race_plot.png: the race whose chart it holds
    access_token          \* irDataClient.access_token of each handle

vars == << now, env_token, file_token, client, token, wrapped_client,
           rate_limit_until, rate_limit_reset, aw_rate_limit_until, wrappers,
           cars_cache, cars_cache_time, user_channels, jobs, sched, cmd, posted, ev,
           lap_chart, decorated, race_plot, access_token >>

Pairs == Users \X Channels

(***************************************************************************)
(* Rate-limit tracker                                                      *)
(***************************************************************************)
\* _parse_rate_limit_error: <<retry_after, resets_in>>
parse_rate_limit_error(p) ==
    IF ~p.json THEN << DefaultRetryAfter, DefaultResetsIn >>
    ELSE << IF p.retry >= 0 THEN p.retry ELSE DefaultRetryAfter,
            IF p.reset >= 0 THEN p.reset ELSE DefaultResetsIn >>

\* _set_rate_limit taking the first number of the message for the second
set_rate_limit_retry_after(p, t) ==
    LET resets_in == parse_rate_limit_error(p)[1]
    IN  [until |-> t + resets_in + RateLimitBuffer, reset |-> t + resets_in]

\* _set_rate_limit at time t: the new (until, reset)
set_rate_limit(p, t) ==
    LET resets_in == parse_rate_limit_error(p)[2]
    IN  [until |-> t + resets_in + RateLimitBuffer, reset |-> t + resets_in]

\* is_rate_limited that never lets go of a recorded limit
is_rate_limited_forever(until, t) == until > 0

\* is_rate_limited
is_rate_limited(until, t) == t < until

\* get_rate_limit_remaining
get_rate_limit_remaining(until, t) == Max(0, until - t)

(***************************************************************************)
(* The table user_channels (sqlCommands.py): a sequence of rows in rowid   *)
(* order.  A NULL last_race_time is None.                                  *)
(***************************************************************************)
Match(r, u, c) == r.user_id = u /\ r.channel_id = c

HasRow(db, u, c) == \E k \in 1..Len(db) : Match(db[k], u, c)

\* SELECT last_race_time ... LIMIT 1: the first matching row's value, None without one
get_last_race_time(db, u, c) ==
    IF HasRow(db, u, c)
    THEN db[CHOOSE k \in 1..Len(db) :
               Match(db[k], u, c) /\ \A m \in 1..(k-1) : ~Match(db[m], u, c)].last_race_time
    ELSE None

\* an UPDATE that is never committed
save_nothing(db, u, t, c) == db

\* an UPDATE ... WHERE user_id=? that leaves the channel out
save_user_last_race_time_every_channel(db, u, t, c) ==
    [k \in 1..Len(db) |->
        IF db[k].user_id = u THEN [db[k] EXCEPT !.last_race_time = t] ELSE db[k]]

\* UPDATE user_channels SET last_race_time=? WHERE user_id=? AND channel_id=?
save_user_last_race_time(db, u, t, c) ==
    [k \in 1..Len(db) |->
        IF Match(db[k], u, c) THEN [db[k] EXCEPT !.last_race_time = t] ELSE db[k]]

\* an INSERT without the SELECT before it
save_user_channel_unchecked(db, u, c) ==
    Append(db, [user_id |-> u, channel_id |-> c, last_race_time |-> None])

\* INSERT OR REPLACE: the pair's row is written anew
save_user_channel_replace(db, u, c) ==
    Append(SelectSeq(db, LAMBDA r : ~Match(r, u, c)),
           [user_id |-> u, channel_id |-> c, last_race_time |-> None])

\* SELECT 1 ...; INSERT unless a row exists
save_user_channel(db, u, c) ==
    IF HasRow(db, u, c) THEN db
    ELSE Append(db, [user_id |-> u, channel_id |-> c, last_race_time |-> None])

\* DELETE FROM user_channels WHERE user_id=? AND channel_id=?
remove_user_from_channel(db, u, c) == SelectSeq(db, LAMBDA r : ~Match(r, u, c))

\* SELECT user_id FROM user_channels WHERE channel_id=?
get_users_by_channel_id(db, c) ==
    LET rows == SelectSeq(db, LAMBDA r : r.channel_id = c)
    IN  [k \in 1..Len(rows) |-> rows[k].user_id]

\* SELECT DISTINCT channel_id FROM user_channels
get_all_channel_ids(db) ==
    LET first == SelectSeq([k \in 1..Len(db) |-> k],
                           LAMBDA k : \A m \in 1..(k-1) : db[m].channel_id # db[k].channel_id)
    IN  [k \in 1..Len(first) |-> db[first[k]].channel_id]

(***************************************************************************)
(* The process's memory as one record, so that the code of a thread        *)
(* segment composes as functions from memory to memory.                    *)
(***************************************************************************)
World ==
    [ client |-> client, token |-> token, wrapped_client |-> wrapped_client,
      rate_limit_until |-> rate_limit_until, rate_limit_reset |-> rate_limit_reset,
      wrappers |-> wrappers, cars_cache |-> cars_cache,
      cars_cache_time |-> cars_cache_time, user_channels |-> user_channels,
      file_token |-> file_token, jobs |-> jobs, race_plot |-> race_plot,
      access_token |-> access_token ]

FreeJob ==
    [ owner |-> None, fn |-> None, stage |-> None, pc |-> "free",
      user |-> None, channel |-> None, race |-> None, saved |-> None,
      h |-> None, w |-> None, exc |-> None, good |-> TRUE, t0 |-> 0,
      result |-> None, secs |-> 0, cars |-> None ]

\* Objects still referenced; an unreferenced one is garbage and its name is reused.
LiveWrappers(W) == ({W.wrapped_client} \cup {W.jobs[i].w : i \in Slots}) \ {None}
LiveHandles(W) ==
    ({W.client} \cup {W.wrappers[w] : w \in LiveWrappers(W)}
                \cup {W.jobs[i].h : i \in Slots}) \ {None}
FreshHandle(W) == CHOOSE h \in Handles : h \notin LiveHandles(W)
FreshWrapper(W) == CHOOSE w \in WrapperIds : w \notin LiveWrappers(W)
Collect(W) ==
    LET V == [W EXCEPT !.wrappers = [w \in WrapperIds |->
                                       IF w \in LiveWrappers(W) THEN W.wrappers[w] ELSE None]]
    IN  [V EXCEPT !.access_token = [h \in Handles |->
                                       IF h \in LiveHandles(V) THEN V.access_token[h] ELSE None]]

\* irDataClient(access_token=tok), kept as the manager's handle
irDataClient(W, tok) ==
    LET h == FreshHandle(W)
    IN  [W EXCEPT !.token = tok, !.client = h, !.access_token[h] = tok]

(***************************************************************************)
(* Token cache and client manager (iRacingApi.py)                          *)
(***************************************************************************)
\* _get_cached_token without the comparison of the expiry with the clock
get_cached_token_unexpiring ==
    IF env_token.token # None /\ env_token.parsable THEN env_token.token ELSE None

\* _get_cached_token: the token of os.environ while its expiry is in the future;
\* float(expires_at) raises ValueError on a text that is no number
get_cached_token ==
    IF env_token.token # None /\ env_token.parsable /\ now < env_token.expires
    THEN env_token.token ELSE None

\* _update_env_token(token, expires_in): the two lines written to .env
update_env_token(tok, expires_in) ==
    [token |-> tok, expires |-> now + expires_in - TokenSafetyMargin, parsable |-> TRUE]

\* clear_client
clear_client(W) == [W EXCEPT !.client = None, !.wrapped_client = None, !.token = None]

\* get_client, up to its return or to the OAuth request it sends.
\* out: "none" (returns None), "have" (returns W.client), "oauth" (request sent)
get_client_begin(W) ==
    IF is_rate_limited(W.rate_limit_until, now) THEN [W |-> W, out |-> "none"]
    ELSE IF W.client # None THEN [W |-> W, out |-> "have"]
    ELSE IF get_cached_token # None
         THEN [W |-> irDataClient(W, get_cached_token),
               out |-> "have"]
         ELSE [W |-> W, out |-> "oauth"]

\* get_client without its test of the token: a client is built on whatever came back
get_client_reply_unchecked(W, r) ==
    [W |-> irDataClient(W, r.token), out |-> "have"]

\* get_oauth_token recording a limit on every failed exchange
get_client_reply_any_failure(W, r) ==
    IF r.kind = "ok" THEN get_client_reply_unchecked(W, r)
    ELSE LET rl == set_rate_limit(r.payload, now)
         IN  [W |-> [W EXCEPT !.token = None, !.rate_limit_until = rl.until,
                              !.rate_limit_reset = rl.reset],
              out |-> "none"]

\* get_oauth_token from the OAuth reply on, and the rest of get_client
get_client_reply(W, r) ==
    CASE r.kind = "ok" ->
            [W |-> [irDataClient(W, r.token) EXCEPT
                             !.file_token = update_env_token(r.token,
                                                IF r.expires_in = -1 THEN DefaultExpiresIn
                                                ELSE r.expires_in)],
             out |-> "have"]
      [] r.kind = "rate_limit" ->
            LET rl == set_rate_limit(r.payload, now)
            IN  [W |-> [W EXCEPT !.token = None, !.rate_limit_until = rl.until,
                                 !.rate_limit_reset = rl.reset],
                 out |-> "none"]
      [] OTHER -> [W |-> [W EXCEPT !.token = None], out |-> "none"]

\* _AuthenticatedClientWrapper(ir_client), cached in the manager
NewWrapper(W) ==
    LET w == FreshWrapper(W)
    IN  [W EXCEPT !.wrappers[w] = W.client, !.wrapped_client = w]

\* get_authenticated_client, up to its return or to the OAuth request
get_authenticated_client_begin(W) ==
    IF is_rate_limited(W.rate_limit_until, now) THEN [W |-> W, out |-> "none"]
    ELSE IF W.wrapped_client # None THEN [W |-> W, out |-> "have"]
    ELSE LET g == get_client_begin(W)
         IN  IF g.out = "have" THEN [W |-> NewWrapper(g.W), out |-> "have"] ELSE g

\* get_authenticated_client from the OAuth reply on
get_authenticated_client_reply(W, r) ==
    LET g == get_client_reply(W, r)
    IN  IF g.out = "have" THEN [W |-> NewWrapper(g.W), out |-> "have"] ELSE g

\* method_wrapper without its except clause: every exception leaves it at once
method_wrapper_no_retry(W, i, r) ==
    [W |-> W, out |-> IF r.kind \in {"ok", "empty"} THEN "ok" ELSE "raise"]

\* method_wrapper on the reply r of its first attempt, for the thread in slot i.
\* out: "ok", "raise" (r's exception leaves the wrapper), "retry" (the call was
\* sent again on the new handle), "reauth" (login sent an OAuth request)
method_wrapper_reply(W, i, r) ==
    IF r.kind \in {"ok", "empty"} THEN [W |-> W, out |-> "ok"]
    ELSE IF r.kind \in {"token", "json"}
    THEN LET g == get_client_begin(
                     [W EXCEPT !.client = None, !.token = None, !.wrapped_client = None])
         IN  CASE g.out = "have" ->
                     [W |-> [g.W EXCEPT !.wrappers[W.jobs[i].w] = g.W.client], out |-> "retry"]
               [] g.out = "oauth" -> [W |-> g.W, out |-> "reauth"]
               [] OTHER -> [W |-> g.W, out |-> "raise"]
    ELSE [W |-> W, out |-> "raise"]

\* method_wrapper from the OAuth reply of its login() on
method_wrapper_reauth(W, i, r) ==
    LET g == get_client_reply(W, r)
    IN  IF g.out = "have"
        THEN [W |-> [g.W EXCEPT !.wrappers[W.jobs[i].w] = g.W.client], out |-> "retry"]
        ELSE [W |-> g.W, out |-> "raise"]

(***************************************************************************)
(* Worker threads.  A job record is the thread's frame: fn the function it *)
(* runs, stage the call site it is at, pc the reply it is blocked on       *)
(* ("start" queued, "oauth" the token POST of an acquisition, "call" a     *)
(* data call, "reauth" the token POST of the wrapper's login, "retry" the  *)
(* wrapper's second attempt, "done" returned and not yet collected).       *)
(***************************************************************************)
Done(W, i, res) ==
    Collect([W EXCEPT !.jobs[i] = [@ EXCEPT !.pc = "done", !.result = res, !.stage = None,
                                            !.h = None, !.w = None, !.exc = None,
                                            !.good = TRUE, !.t0 = 0]])

WaitOAuth(W, i, stage) == [W EXCEPT !.jobs[i].stage = stage, !.jobs[i].pc = "oauth"]

\* a call through the cached wrapper / on the handle get_client returned
WrappedCall(W, i, stage) ==
    \* attr = getattr(self._client, name): the method is bound to the wrapper's handle
    [W EXCEPT !.jobs[i].stage = stage, !.jobs[i].pc = "call", !.jobs[i].w = W.wrapped_client,
              !.jobs[i].h = W.wrappers[W.wrapped_client]]
RawCall(W, i, stage) ==
    [W EXCEPT !.jobs[i].stage = stage, !.jobs[i].pc = "call", !.jobs[i].h = W.client]

\* except AccessTokenInvalid: clear_client() / except Exception: nothing
Handle(W, kind) == IF kind = "token" THEN clear_client(W) ELSE W

\* getLastRaceIfNew -> getLastRaceByCustId, up to the recent-races call
getLastRaceIfNew_start(W, i) ==
    LET g == get_authenticated_client_begin(W)
    IN  CASE g.out = "have"  -> WrappedCall(g.W, i, "recent")
          [] g.out = "oauth" -> WaitOAuth(g.W, i, "recent")
          [] OTHER           -> Done(g.W, i, "none")

\* lastRaceTimeMatching comparing values that are never equal
lastRaceTimeMatching_never(saved, race_time) == FALSE

\* lastRaceTimeMatching: None saved never matches
lastRaceTimeMatching(saved, race_time) == saved # None /\ saved = race_time

\* getLastRaceIfNew once the recent-races call has returned r: the comparison
\* with the saved timestamp and the save
getLastRaceIfNew_finish(W, i, r) ==
    IF r.kind # "ok" THEN Done(W, i, "none")
    ELSE LET j == W.jobs[i]
             saved == get_last_race_time(W.user_channels, j.user, j.channel)
             seen == [W EXCEPT !.jobs[i].race = r.race, !.jobs[i].saved = saved]
         IN  IF lastRaceTimeMatching(saved, r.race)
             THEN Done(seen, i, "none")
             ELSE Done([seen EXCEPT !.user_channels =
                            save_user_last_race_time(@, j.user, r.race, j.channel)], i, "ok")

\* raceAndDriverData: car lookup in what get_cached_cars returned, and formatRaceData
raceAndDriverData_finish(W, i) ==
    Done(W, i, IF W.jobs[i].cars = "cars" /\ W.jobs[i].good THEN "ok" ELSE "none")

\* get_cached_cars returns val to raceAndDriverData
get_cached_cars_return(W, i, val) ==
    raceAndDriverData_finish([W EXCEPT !.jobs[i].cars = val], i)

\* a cache that is never taken for valid
cache_never_valid(W) == FALSE

\* _cars_cache is not None and (current_time - _cars_cache_time) < CARS_CACHE_DURATION
cache_valid(W) ==
    W.cars_cache # None /\ (now - W.cars_cache_time) < CARS_CACHE_DURATION

\* an empty list whatever the cache holds
no_cars(W) == "[]"

\* _cars_cache if _cars_cache is not None else []
stale_cars(W) == IF W.cars_cache # None THEN W.cars_cache ELSE "[]"

\* get_cached_cars, up to the get_cars call
get_cached_cars_begin(W, i) ==
    IF cache_valid(W)
    THEN get_cached_cars_return(W, i, W.cars_cache)
    ELSE LET g == get_authenticated_client_begin(W)
             at == [g.W EXCEPT !.jobs[i].t0 = now]
         IN  CASE g.out = "have"  -> WrappedCall(at, i, "cars")
               [] g.out = "oauth" -> WaitOAuth(at, i, "cars")
               [] OTHER           -> get_cached_cars_return(g.W, i, stale_cars(g.W))

\* get_cached_cars once get_cars has returned r
get_cached_cars_finish(W, i, r) ==
    LET cars == IF r.kind = "ok" THEN "cars" ELSE None
    IN  get_cached_cars_return(
            [W EXCEPT !.cars_cache = cars,
                      !.cars_cache_time = W.jobs[i].t0,
                      !.jobs[i].good = r.good], i, cars)

\* getSubsessionDataByUserId, up to the result call
getSubsessionDataByUserId_begin(W, i) ==
    LET g == get_authenticated_client_begin(W)
    IN  CASE g.out = "have"  -> WrappedCall(g.W, i, "result")
          [] g.out = "oauth" -> WaitOAuth(g.W, i, "result")
          [] OTHER           -> Done(g.W, i, "none")

\* raceAndDriverData, up to its first request
raceAndDriverData_start(W, i) ==
    IF is_rate_limited(W.rate_limit_until, now) THEN Done(W, i, "none")
    ELSE LET g == get_client_begin(W)     \* login()
         IN  CASE g.out = "have"  -> getSubsessionDataByUserId_begin(g.W, i)
               [] g.out = "oauth" -> WaitOAuth(g.W, i, "pre")
               [] OTHER           -> Done(g.W, i, "none")

\* getLapsChart, up to its first request
getLapsChart_start(W, i) ==
    IF is_rate_limited(aw_rate_limit_until, now)
    THEN Done([W EXCEPT !.jobs[i].secs = get_rate_limit_remaining(aw_rate_limit_until, now)],
              i, "rate_limit")
    ELSE LET g == get_client_begin(W)     \* ira.login()
         IN  CASE g.out = "have"  -> RawCall(g.W, i, "lapdata")
               [] g.out = "oauth" -> WaitOAuth(g.W, i, "lapdata")
               [] OTHER           -> Done(g.W, i, "none")

\* getDriverName, up to its first request
getDriverName_start(W, i) ==
    IF is_rate_limited(W.rate_limit_until, now) THEN Done(W, i, "none")
    ELSE LET g == get_client_begin(W)     \* login()
         IN  CASE g.out = "have"  -> RawCall(g.W, i, "profile")
               [] g.out = "oauth" -> WaitOAuth(g.W, i, "profile")
               [] OTHER           -> Done(g.W, i, "none")

\* getRaceBySubsessionId(subsession_id, cust_id), which bot.postRace calls and
\* iRacingApi.py does not define: as the interface describes it, the result
\* of the subsession is fetched for the driver and returned, or None
getRaceBySubsessionId_start(W, i) ==
    IF is_rate_limited(W.rate_limit_until, now) THEN Done(W, i, "none")
    ELSE LET g == get_client_begin(W)
         IN  CASE g.out = "have"  -> RawCall(g.W, i, "subsession")
               [] g.out = "oauth" -> WaitOAuth(g.W, i, "subsession")
               [] OTHER           -> Done(g.W, i, "none")

\* The thread of slot i is scheduled for the first time.
job_start(W, i) ==
    CASE W.jobs[i].fn = "getLastRaceIfNew"  -> getLastRaceIfNew_start(W, i)
      [] W.jobs[i].fn = "getRaceBySubsessionId" -> getRaceBySubsessionId_start(W, i)
      [] W.jobs[i].fn = "raceAndDriverData" -> raceAndDriverData_start(W, i)
      [] W.jobs[i].fn = "getLapsChart"      -> getLapsChart_start(W, i)
      [] OTHER                              -> getDriverName_start(W, i)

\* The OAuth reply r of an acquisition arrives at the thread of slot i.
job_oauth(W, i, r) ==
    LET stage == W.jobs[i].stage
        g == IF stage \in {"recent", "result", "cars"}
             THEN get_authenticated_client_reply(W, r)
             ELSE get_client_reply(W, r)
    IN  CASE stage = "recent" ->
                IF g.out = "have" THEN WrappedCall(g.W, i, "recent") ELSE Done(g.W, i, "none")
          [] stage = "pre" ->
                IF g.out = "have" THEN getSubsessionDataByUserId_begin(g.W, i)
                ELSE Done(g.W, i, "none")
          [] stage = "result" ->
                IF g.out = "have" THEN WrappedCall(g.W, i, "result") ELSE Done(g.W, i, "none")
          [] stage = "cars" ->
                IF g.out = "have" THEN WrappedCall(g.W, i, "cars")
                ELSE get_cached_cars_return(g.W, i, stale_cars(g.W))
          [] OTHER ->
                IF g.out = "have" THEN RawCall(g.W, i, stage) ELSE Done(g.W, i, "none")

\* A call through the wrapper has returned r without an exception.
stage_ok(W, i, r) ==
    CASE W.jobs[i].stage = "recent" -> getLastRaceIfNew_finish(W, i, r)
      [] W.jobs[i].stage = "result" ->
            IF r.kind = "ok" /\ r.good
            THEN get_cached_cars_begin([W EXCEPT !.jobs[i].w = None, !.jobs[i].h = None], i)
            ELSE Done(W, i, "none")
      [] OTHER -> get_cached_cars_finish(W, i, r)

\* the exception leaves the function for want of an except clause
stage_raise_uncaught(W, i, kind) == Done(W, i, "raise")

\* An exception of the given kind has left the wrapper.
stage_raise(W, i, kind) ==
    IF W.jobs[i].stage = "cars"
    THEN get_cached_cars_return(W, i, stale_cars(W))     \* get_cached_cars: except Exception
    ELSE Done(Handle(W, kind), i, "none")

\* The reply r of a call on a raw handle arrives at the thread of slot i.
raw_reply(W, i, r) ==
    IF r.kind \in {"token", "json", "error"} THEN Done(Handle(W, r.kind), i, "none")
    ELSE CASE W.jobs[i].stage = "lapdata" ->
                 \* result_lap_chart_data returned; result() is called on the same handle
                 [W EXCEPT !.jobs[i].stage = "chartresult",
                           !.jobs[i].good = (r.kind = "ok" /\ r.good)]
           [] W.jobs[i].stage = "chartresult" ->
                 IF r.kind = "ok" /\ r.good /\ W.jobs[i].good
                 THEN Done([W EXCEPT !.race_plot = W.jobs[i].race], i, "ok")   \* plt.savefig
                 ELSE Done(W, i, "none")
           [] OTHER ->
                 Done(W, i, IF r.kind = "ok" /\ r.good THEN "ok" ELSE "none")

\* The reply r of a data call arrives at the thread of slot i.
job_call(W, i, r) ==
    LET j == W.jobs[i]
    IN  IF j.stage \in {"lapdata", "chartresult", "profile", "subsession"}
        THEN raw_reply(W, i, r)
        ELSE IF j.pc = "retry"
        THEN IF r.kind \in {"ok", "empty"} THEN stage_ok(W, i, r)
             ELSE stage_raise(W, i, r.kind)
        ELSE LET m == method_wrapper_reply(W, i, r)
             IN  CASE m.out = "ok"     -> stage_ok(m.W, i, r)
                   [] m.out = "retry"  -> [m.W EXCEPT !.jobs[i].pc = "retry", !.jobs[i].h = m.W.client]
                   [] m.out = "reauth" -> [m.W EXCEPT !.jobs[i].pc = "reauth",
                                                     !.jobs[i].exc = r.kind]
                   [] OTHER            -> stage_raise(m.W, i, r.kind)

\* The OAuth reply r of the wrapper's login() arrives at the thread of slot i.
job_reauth(W, i, r) ==
    LET m == method_wrapper_reauth(W, i, r)
    IN  IF m.out = "retry" THEN [m.W EXCEPT !.jobs[i].pc = "retry", !.jobs[i].exc = None,
                                        !.jobs[i].h = m.W.client]
        ELSE stage_raise(m.W, i, W.jobs[i].exc)

(***************************************************************************)
(* The event loop: the scheduler coroutine and the command coroutine       *)
(***************************************************************************)
SchedIdle(next) ==
    [ pc |-> "idle", chans |-> << >>, users |-> << >>, channel |-> None, user |-> None,
      retry_count |-> 0, last_race |-> None, saved |-> None, chart |-> FALSE,
      disturbed |-> FALSE, next_iteration |-> next, sleep_until |-> 0 ]

CmdIdle(n) == [ pc |-> "idle", user |-> None, channel |-> None, issued |-> n,
                race |-> None, chart |-> FALSE ]

NoEvent == [ kind |-> None, user |-> None, channel |-> None, race |-> None,
             saved |-> None, clean |-> TRUE, caught |-> FALSE, payload |-> NoPayload,
             image |-> None ]

FreeSlots(js) == { i \in Slots : js[i].pc = "free" }

\* loop.run_in_executor(executor, fn, ...)
Submit(W, owner, fn, u, c, race) ==
    LET free == FreeSlots(W.jobs)
        \* any idle thread serves; the scheduler's jobs are shown from the low
        \* end of the pool and a command's jobs from the high end
        i == IF owner = "sched" THEN CHOOSE k \in free : \A m \in free : k <= m
             ELSE CHOOSE k \in free : \A m \in free : k >= m
    IN  [W EXCEPT !.jobs[i] = [FreeJob EXCEPT !.owner = owner, !.fn = fn, !.pc = "start",
                                              !.user = u, !.channel = c, !.race = race]]

\* processAndPostRace, up to its first await
processAndPostRace_begin(W, s) ==
    [ W |-> Submit(W, "sched", "getLastRaceIfNew", s.user, s.channel, None),
      s |-> [s EXCEPT !.pc = "wait_race", !.last_race = None, !.saved = None,
                      !.chart = FALSE, !.disturbed = FALSE],
      caught |-> FALSE ]

\* the exception leaves startLoopForUpdates and ends the loop's task
cycle_abandoned_uncaught(W, s) == [ W |-> W, s |-> [s EXCEPT !.pc = "dead"], caught |-> TRUE ]

\* except Exception at the top of startLoopForUpdates: the cycle is over
cycle_abandoned(W, s) == [ W |-> W, s |-> SchedIdle(s.next_iteration), caught |-> TRUE ]

\* The two for loops of startLoopForUpdates, from the return of one
\* processAndPostRace to the first await of the next, or to the end of the
\* cycle.  dbok: whether the table can be read in this stretch.
RECURSIVE next_user(_, _, _)
next_user(W, s, dbok) ==
    IF s.users # << >>
    THEN processAndPostRace_begin(W, [s EXCEPT !.user = Head(s.users), !.users = Tail(s.users),
                                               !.retry_count = 0])
    ELSE IF s.chans # << >>
    THEN IF ~dbok THEN cycle_abandoned(W, s)
         ELSE next_user(W, [s EXCEPT !.channel = Head(s.chans), !.chans = Tail(s.chans),
                                     !.users = get_users_by_channel_id(W.user_channels,
                                                                       Head(s.chans))], dbok)
    ELSE [ W |-> W, s |-> SchedIdle(s.next_iteration), caught |-> FALSE ]

\* startLoopForUpdates from its wake-up on
startLoopForUpdates(W, s, dbok) ==
    IF ~dbok THEN cycle_abandoned(W, s)
    ELSE next_user(W, [s EXCEPT !.chans = get_all_channel_ids(W.user_channels)], dbok)

\* rate_limit_handler after its asyncio.sleep: the while condition
rate_limit_handler_resume(W, s) ==
    IF s.retry_count < HandlerMaxRetries THEN processAndPostRace_begin(W, s)
    ELSE cycle_abandoned(W, s)                   \* raise RateLimitError(0)

\* processAndPostRace going on without its "if last_race is None: return"
after_getLastRaceIfNew_unchecked(W, s, j, dbok) ==
    [ W |-> Submit(W, "sched", "raceAndDriverData", s.user, s.channel, j.race),
      s |-> [s EXCEPT !.pc = "wait_fmt", !.last_race = j.race, !.saved = j.saved],
      caught |-> FALSE ]

\* processAndPostRace running formatting and chart generation side by side
after_getLastRaceIfNew_gather(W, s, j, dbok) ==
    IF j.result = "ok"
    THEN [ W |-> Submit(Submit(W, "sched", "raceAndDriverData", s.user, s.channel, j.race),
                        "sched", "getLapsChart", s.user, s.channel, j.race),
           s |-> [s EXCEPT !.pc = "wait_fmt", !.last_race = j.race, !.saved = j.saved],
           caught |-> FALSE ]
    ELSE next_user(W, s, dbok)

\* processAndPostRace from the return of getLastRaceIfNew (job j) on
after_getLastRaceIfNew(W, s, j, dbok) ==
    IF j.result = "ok"
    THEN [ W |-> Submit(W, "sched", "raceAndDriverData", s.user, s.channel, j.race),
           s |-> [s EXCEPT !.pc = "wait_fmt", !.last_race = j.race, !.saved = j.saved],
           caught |-> FALSE ]
    ELSE next_user(W, s, dbok)

\* processAndPostRace from the return of raceAndDriverData on
after_raceAndDriverData(W, s, j, dbok) ==
    IF j.result = "ok"
    THEN [ W |-> Submit(W, "sched", "getLapsChart", s.user, s.channel, s.last_race),
           s |-> [s EXCEPT !.pc = "wait_chart"], caught |-> FALSE ]
    ELSE next_user(W, s, dbok)

\* processAndPostRace setting chart_path whatever getLapsChart returned
after_getLapsChart_attached(W, s, j, found, dbok) ==
    IF found
    THEN [ W |-> W, s |-> [s EXCEPT !.pc = "posting", !.chart = TRUE], caught |-> FALSE ]
    ELSE next_user(W, s, dbok)

\* processAndPostRace from the return of getLapsChart on.  found: whether
\* bot.get_channel knows the channel.
after_getLapsChart(W, s, j, found, dbok) ==
    IF j.result = "rate_limit"           \* RateLimitError reaches rate_limit_handler
    THEN [ W |-> W,
           s |-> [s EXCEPT !.pc = "rl_sleep", !.retry_count = @ + 1,
                           !.sleep_until = now + j.secs + HandlerBuffer],
           caught |-> FALSE ]
    ELSE IF found
    THEN [ W |-> W, s |-> [s EXCEPT !.pc = "posting", !.chart = (j.result = "ok")],
           caught |-> FALSE ]
    ELSE next_user(W, s, dbok)

\* processAndPostRace once the awaited job j has returned
processAndPostRace_resume(W, s, j, found, dbok) ==
    CASE s.pc = "wait_race" -> after_getLastRaceIfNew(W, s, j, dbok)
      [] s.pc = "wait_fmt"  -> after_raceAndDriverData(W, s, j, dbok)
      [] OTHER              -> after_getLapsChart(W, s, j, found, dbok)

AwaitedFn(s) ==
    CASE s.pc = "wait_race" -> "getLastRaceIfNew"
      [] s.pc = "wait_fmt"  -> "raceAndDriverData"
      [] OTHER              -> "getLapsChart"

RowState(db, p) == << HasRow(db, p[1], p[2]), get_last_race_time(db, p[1], p[2]) >>

\* posted after the table went from db0 to db1
Disturb(db0, db1) ==
    [p \in Pairs |-> IF RowState(db0, p) # RowState(db1, p)
                     THEN [posted[p] EXCEPT !.fresh = FALSE] ELSE posted[p]]

Commit(W) ==
    /\ client' = W.client
    /\ token' = W.token
    /\ wrapped_client' = W.wrapped_client
    /\ rate_limit_until' = W.rate_limit_until
    /\ rate_limit_reset' = W.rate_limit_reset
    /\ wrappers' = W.wrappers
    /\ cars_cache' = W.cars_cache
    /\ cars_cache_time' = W.cars_cache_time
    /\ user_channels' = W.user_channels
    /\ file_token' = W.file_token
    /\ jobs' = W.jobs
    /\ race_plot' = W.race_plot
    /\ access_token' = W.access_token

(***************************************************************************)
(* getLapsChart's reconstruction of the standings (iRacingLaps.py), from   *)
(* the two provider replies on: lap_data, a sequence of samples, and the   *)
(* rows of the RACE session's results.  The lap values of a trace are in   *)
(* tenths of a lap, so that lap + 0.5 and max_lap - 0.3 are integers.      *)
(***************************************************************************)
LapScale == 10
HalfLap == 5        \* dnf_lap + 0.5
ReclassStep == 3    \* max_lap - 0.3

SetMax(S) == CHOOSE x \in S : \A y \in S : y <= x
SetMin(S) == CHOOSE x \in S : \A y \in S : x <= y
Last(q) == q[Len(q)]
Range(q) == {q[k] : k \in 1..Len(q)}
Index(q, x) == SetMin({k \in 1..Len(q) : q[k] = x})       \* list.index(x)

\* results of the first session named RACE, [] without one
race_results(session_results) ==
    LET race_session == SelectSeq(session_results, LAMBDA s : s.simsession_name = "RACE")
    IN  IF race_session = << >> THEN << >> ELSE race_session[1].results

\* "driver_results" in results[0]
is_team_race(results) == Len(results) > 0 /\ "driver_results" \in DOMAIN results[1]

\* the key of a result row, and the entity of a lap sample
RowKey(r, team) == IF team THEN r.team_id ELSE r.cust_id
EntityOf(smp, team) == IF team THEN smp.group_id ELSE smp.cust_id

\* finishing_positions as the loop over the results leaves it (a later row overwrites)
finishing_positions(results) ==
    LET team == is_team_race(results)
        rows(e) == {k \in 1..Len(results) : RowKey(results[k], team) = e}
    IN  [e \in {RowKey(results[k], team) : k \in 1..Len(results)} |->
            results[SetMax(rows(e))].finish_position + 1]

\* car_class_map.get(entity_id): from the entity's result row in an individual
\* race, through the team's name in a team race
car_class_of(e, lap_data, results) ==
    LET team == is_team_race(results)
        named(nm) == {k \in 1..Len(results) : results[k].display_name = nm}
        hits == {k \in 1..Len(lap_data) :
                    lap_data[k].group_id = e /\ named(lap_data[k].name) # {}}
        rows == IF team
                THEN IF hits = {} THEN {} ELSE named(lap_data[SetMax(hits)].name)
                ELSE {k \in 1..Len(results) : results[k].cust_id = e}
    IN  IF rows = {} THEN None ELSE results[SetMax(rows)].car_class_id

\* highlighted_car_class
highlighted_car_class(results, highlighted) ==
    LET team == is_team_race(results)
        rows == IF team
                THEN {k \in 1..Len(results) : highlighted \in results[k].driver_results}
                ELSE {k \in 1..Len(results) : results[k].cust_id = highlighted}
    IN  IF rows = {} THEN None ELSE results[SetMax(rows)].car_class_id

\* the dictionary of the run before, taken up again
kept_dict(previous) == previous

\* race_laps_per_entity = {} before the loop over lap_data
new_dict(previous) == << >>

\* the loop over lap_data: every sample appended to its entity's lists
race_laps(start, lap_data, team) ==
    [e \in DOMAIN start \cup {EntityOf(lap_data[k], team) : k \in 1..Len(lap_data)} |->
        LET mine == SelectSeq(lap_data, LAMBDA smp : EntityOf(smp, team) = e)
            old == IF e \in DOMAIN start THEN start[e]
                   ELSE [lap_numbers |-> << >>, lap_positions |-> << >>, drivers |-> {}]
        IN  [ lap_numbers |-> old.lap_numbers \o [k \in 1..Len(mine) |-> mine[k].lap_number],
              lap_positions |-> old.lap_positions
                                    \o [k \in 1..Len(mine) |-> mine[k].lap_position],
              drivers |-> old.drivers \cup {mine[k].cust_id : k \in 1..Len(mine)} ]]

\* max(leader_lap_numbers), 0 without a leader
max_lap(lap_data) ==
    LET leader == {lap_data[k].lap_number :
                       k \in {k \in 1..Len(lap_data) : lap_data[k].lap_position = 1}}
    IN  IF leader = {} THEN 0 ELSE SetMax(leader)

\* get_drop_position without its caps
get_drop_position_uncapped(dnf_lap, all, finishing_pos, total_entities) ==
    SetMax({all[e].lap_positions[Index(all[e].lap_numbers, dnf_lap)] :
               e \in {e \in DOMAIN all : /\ Last(all[e].lap_numbers) >= dnf_lap
                                         /\ dnf_lap \in Range(all[e].lap_numbers)}}) + 1

get_drop_position(dnf_lap, all, finishing_pos, total_entities) ==
    LET running == {e \in DOMAIN all : /\ Len(all[e].lap_numbers) > 0
                                       /\ Last(all[e].lap_numbers) >= dnf_lap
                                       /\ dnf_lap \in Range(all[e].lap_numbers)}
        positions == {all[e].lap_positions[Index(all[e].lap_numbers, dnf_lap)] : e \in running}
    IN  IF positions # {}
        THEN SetMin({SetMax(positions) + 1, finishing_pos, total_entities})
        ELSE finishing_pos

\* finishing_positions after the loop over lap_data of a team race: a group
\* without an entry takes the entry of the team that bears its name
entity_finishing_positions(lap_data, results) ==
    LET fp == finishing_positions(results)
        named(nm) == {k \in 1..Len(results) : results[k].display_name = nm}
        team_id(nm) == results[SetMax(named(nm))].team_id
        hits(g) == {k \in 1..Len(lap_data) :
                       /\ lap_data[k].group_id = g
                       /\ named(lap_data[k].name) # {}
                       /\ team_id(lap_data[k].name) \in DOMAIN fp}
        groups == {g \in {lap_data[k].group_id : k \in 1..Len(lap_data)} :
                       g \notin DOMAIN fp /\ hits(g) # {}}
    IN  IF ~is_team_race(results) THEN fp
        ELSE [e \in DOMAIN fp \cup groups |->
                 IF e \in DOMAIN fp THEN fp[e]
                 ELSE fp[team_id(lap_data[SetMin(hits(e))].name)]]

Scaled(laps) == [k \in 1..Len(laps) |-> LapScale * laps[k]]

\* lap_numbers_extended / lap_positions_extended of an individual race
extended_individual(e, all, fp, maxlap) ==
    LET laps == all[e].lap_numbers
        pos == all[e].lap_positions
    IN  IF e \notin DOMAIN fp
        THEN [laps |-> Scaled(laps), positions |-> pos]
        ELSE IF Len(laps) > 0 /\ Last(laps) < maxlap
        THEN [ laps |-> Scaled(laps)
                           \o << LapScale * Last(laps) + HalfLap, LapScale * maxlap >>,
               positions |-> pos \o << get_drop_position(Last(laps), all, fp[e],
                                                         Cardinality(DOMAIN all)),
                                       fp[e] >> ]
        ELSE IF Last(pos) # fp[e]
        THEN [ laps |-> Scaled(laps) \o << LapScale * maxlap - ReclassStep, LapScale * maxlap >>,
               positions |-> pos \o << Last(pos), fp[e] >> ]
        ELSE [ laps |-> Scaled(laps) \o << LapScale * maxlap >>,
               positions |-> pos \o << fp[e] >> ]

\* no extension at all: every trace ends with its last sample
extended_as_sampled(e, all, fp, team, maxlap) ==
    [laps |-> Scaled(all[e].lap_numbers), positions |-> all[e].lap_positions]

\* the extension without its test of is_team_race
extended_any_race(e, all, fp, team, maxlap) == extended_individual(e, all, fp, maxlap)

\* lap_numbers_extended / lap_positions_extended
extended(e, all, fp, team, maxlap) ==
    IF team THEN [laps |-> Scaled(all[e].lap_numbers), positions |-> all[e].lap_positions]
    ELSE extended_individual(e, all, fp, maxlap)

\* One run of getLapsChart on the data of chart: what it plots per entity
\* (the trace, whether it is highlighted, whether it is drawn in colour)
getLapsChart_draw(chart) ==
    LET results == race_results(chart.session_results)
        team == is_team_race(results)
        all == race_laps(new_dict(chart.race_laps_per_entity), chart.lap_data, team)
        fp == entity_finishing_positions(chart.lap_data, results)
        hcc == highlighted_car_class(results, chart.highlighted_cust_id)
    IN  [chart EXCEPT
            !.runs = @ + 1,
            !.results = results,
            !.returned = "True",          \* plt.savefig("race_plot.png"); return True
            !.race_laps_per_entity = all,
            !.traces = [e \in DOMAIN all |->
                [ line |-> extended(e, all, fp, team, max_lap(chart.lap_data)),
                  should_highlight |->
                      IF team THEN chart.highlighted_cust_id \in all[e].drivers
                      ELSE e = chart.highlighted_cust_id,
                  same_class |->
                      hcc # None /\ car_class_of(e, chart.lap_data, results) = hcc ]]]

(***************************************************************************)
(* The races the chart is drawn for.  The provider lists the samples lap   *)
(* by lap and, within a lap, in the order of the standings, so every lap   *)
(* somebody ran has a leader; the results list the rows in finishing order.*)
(***************************************************************************)
MaxLap == 2
MaxRuns == 2

ChartDrivers == {1, 2, 3}
ChartTeams == {10, 20}
TeamRoster == [g \in ChartTeams |-> IF g = 10 THEN <<1, 2>> ELSE <<3, 4>>]
TeamId == [g \in ChartTeams |-> g + 100]
TeamName == [g \in ChartTeams |-> IF g = 10 THEN "team10" ELSE "team20"]
ClassOf(d) == IF d \in {3, 20} THEN "classB" ELSE "classA"

\* the orders in which the members of S can stand
Orders(S) == {q \in [1..Cardinality(S) -> S] : \A a, b \in DOMAIN q : q[a] = q[b] => a = b}

RECURSIVE Concat(_, _)
Concat(f, n) == IF n = 0 THEN << >> ELSE Concat(f, n - 1) \o f[n]

\* the samples of an individual race: laps[d] laps completed by driver d,
\* order[n] the standings at the end of lap n
IndividualLapData(laps, order) ==
    Concat([n \in 1..MaxLap |->
               [p \in 1..Len(order[n]) |->
                   [cust_id |-> order[n][p], lap_number |-> n, lap_position |-> p]]],
           MaxLap)

IndividualResults(fin) ==
    [q \in 1..Len(fin) |->
        [cust_id |-> fin[q], finish_position |-> q - 1, car_class_id |-> ClassOf(fin[q])]]

\* the samples of a team race: first[g] the member of team g who drives lap 1,
\* the two members taking turns
TeamLapData(laps, order, first) ==
    Concat([n \in 1..MaxLap |->
               [p \in 1..Len(order[n]) |->
                   LET g == order[n][p]
                   IN  [group_id |-> g, name |-> TeamName[g],
                        cust_id |-> TeamRoster[g][1 + ((first[g] + n) % 2)],
                        lap_number |-> n, lap_position |-> p]]],
           MaxLap)

TeamResults(fin) ==
    [q \in 1..Len(fin) |->
        [team_id |-> TeamId[fin[q]], display_name |-> TeamName[fin[q]],
         finish_position |-> q - 1, car_class_id |-> ClassOf(fin[q]),
         driver_results |-> Range(TeamRoster[fin[q]])]]

\* session_results of the provider's result: a qualifying session, and the
\* race session unless the subsession has none
Sessions(results, race) ==
    IF race THEN << [simsession_name |-> "QUALIFY", results |-> << >>],
                    [simsession_name |-> "RACE", results |-> results] >>
    ELSE << [simsession_name |-> "QUALIFY", results |-> results] >>

Standings(S, laps) ==
    {order \in [1..MaxLap -> UNION {Orders(T) : T \in SUBSET S}] :
        \A n \in 1..MaxLap : Range(order[n]) = {e \in S : laps[e] >= n}}

(***************************************************************************)
(* Initial states: the process has just started.  The table is what earlier *)
(* runs left (subscriptions that have not been polled yet); the .env file   *)
(* holds no token, or one that is valid for a while.                        *)
(***************************************************************************)
\* parsable: whether IRACING_TOKEN_EXPIRES is the text of a number
NoToken == [token |-> None, expires |-> 0, parsable |-> TRUE]
EnvToken == [token |-> "tokE", expires |-> 2 * LoopInterval, parsable |-> TRUE]
ExpiredToken == [token |-> "tokE", expires |-> 0, parsable |-> TRUE]
CorruptToken == [token |-> "tokE", expires |-> 0, parsable |-> FALSE]

Row(u, c) == [user_id |-> u, channel_id |-> c, last_race_time |-> None]

(***************************************************************************)
(* The decorators of rateLimit.py around one call.  pc: "start" the        *)
(* wrapper is about to be called, "calling" the wrapped function runs,     *)
(* "sleeping" the wrapper sleeps, "returned" / "raised" the wrapper is     *)
(* left.  sleeps: the seconds of each sleep; errors: seconds_remaining of  *)
(* each RateLimitError caught.                                             *)
(***************************************************************************)
RECURSIVE Pow2(_)
Pow2(k) == IF k = 0 THEN 1 ELSE 2 * Pow2(k - 1)

NoCall == [ deco |-> None, max_retries |-> 0, base_delay |-> 0, pc |-> "idle", attempt |-> 0,
            calls |-> 0, sleeps |-> << >>, errors |-> << >>, result |-> None ]

\* retry_on_transient_error's wrapper: the while condition
retry_on_transient_error_while(d) ==
    IF d.attempt < d.max_retries
    THEN [d EXCEPT !.pc = "calling", !.calls = @ + 1]
    ELSE [d EXCEPT !.pc = "returned", !.result = "None"]     \* falls off the end

\* retry_on_transient_error's wrapper from the end of func on.  outcome:
\* "ok" func returned; "transient" RuntimeError naming 502, 503, 504 or 429;
\* "runtime" another RuntimeError; "error" another exception.
retry_on_transient_error_except(d, outcome) ==
    IF outcome = "ok" THEN [d EXCEPT !.pc = "returned", !.result = "value"]
    ELSE IF outcome = "transient" /\ d.attempt < d.max_retries - 1
    THEN [d EXCEPT !.attempt = @ + 1, !.pc = "sleeping",
                   \* delay = base_delay * (2 ** (attempt - 1)), attempt already raised
                   !.sleeps = Append(@, d.base_delay * Pow2(d.attempt))]
    ELSE [d EXCEPT !.pc = "raised", !.result = outcome]       \* raise, or not caught

\* rate_limit_handler's wrapper without its count of retries
rate_limit_handler_while_unbounded(d) == [d EXCEPT !.pc = "calling", !.calls = @ + 1]

\* rate_limit_handler's wrapper: the while condition and what follows the loop
rate_limit_handler_while(d) ==
    IF d.attempt < HandlerMaxRetries
    THEN [d EXCEPT !.pc = "calling", !.calls = @ + 1]
    ELSE [d EXCEPT !.pc = "raised", !.result = "rate_limit"]  \* raise RateLimitError(0)

\* rate_limit_handler's wrapper from the end of func on.  outcome: "ok" func
\* returned; "rate_limit" RateLimitError(secs); "error" another exception.
rate_limit_handler_except(d, outcome, secs) ==
    IF outcome = "ok" THEN [d EXCEPT !.pc = "returned", !.result = "value"]
    ELSE IF outcome = "rate_limit"
    THEN [d EXCEPT !.attempt = @ + 1, !.pc = "sleeping",
                   !.errors = Append(@, secs), !.sleeps = Append(@, secs + HandlerBuffer)]
    ELSE [d EXCEPT !.pc = "raised", !.result = outcome]

InitProcess(table, envs) ==
    /\ now = 0
    /\ env_token \in envs
    /\ file_token = env_token
    /\ client = None
    /\ token = None
    /\ wrapped_client = None
    /\ rate_limit_until = 0
    /\ rate_limit_reset = 0
    /\ aw_rate_limit_until = 0
    /\ wrappers = [w \in WrapperIds |-> None]
    /\ cars_cache = None
    /\ cars_cache_time = 0
    /\ user_channels = table
    /\ jobs = [i \in Slots |-> FreeJob]
    /\ sched = SchedIdle(0)
    /\ cmd = CmdIdle(0)
    /\ posted = [p \in Pairs |-> [t |-> None, fresh |-> FALSE]]
    /\ ev = NoEvent
    /\ race_plot = None
    /\ access_token = [h \in Handles |-> None]

\* no chart data at hand: the runs of getLapsChart are followed by their outcome alone
NoChart == [ lap_data |-> << >>, session_results |-> << >>, highlighted_cust_id |-> 0,
             runs |-> 0, results |-> << >>, race_laps_per_entity |-> << >>,
             traces |-> << >>, returned |-> None ]

InitWith(table, envs) == InitProcess(table, envs) /\ lap_chart = NoChart /\ decorated = NoCall

(***************************************************************************)
(* Actions                                                                 *)
(***************************************************************************)
\* The clock advances.
Tick(d, horizon) ==
    /\ now + d <= horizon
    /\ now' = now + d
    /\ ev' = NoEvent
    /\ UNCHANGED << access_token, race_plot, decorated, lap_chart, env_token, file_token, client, token, wrapped_client, rate_limit_until,
                    rate_limit_reset, aw_rate_limit_until, wrappers, cars_cache,
                    cars_cache_time, user_channels, jobs, sched, cmd, posted >>

\* The process dies and is started again: memory is lost, the table and the
\* .env file stay, the loop's first iteration runs at once.
Restart ==
    /\ env_token' = file_token
    /\ client' = None
    /\ token' = None
    /\ wrapped_client' = None
    /\ rate_limit_until' = 0
    /\ rate_limit_reset' = 0
    /\ wrappers' = [w \in WrapperIds |-> None]
    /\ cars_cache' = None
    /\ cars_cache_time' = 0
    /\ jobs' = [i \in Slots |-> FreeJob]
    /\ sched' = SchedIdle(now)
    /\ cmd' = CmdIdle(cmd.issued)
    /\ ev' = NoEvent
    /\ UNCHANGED << access_token, race_plot, decorated, lap_chart, now, file_token, aw_rate_limit_until, user_channels, posted >>

\* _set_rate_limit(error_response) is called with the payload p.
RecordLimit(p) ==
    /\ rate_limit_until' = set_rate_limit(p, now).until
    /\ rate_limit_reset' = set_rate_limit(p, now).reset
    /\ ev' = [NoEvent EXCEPT !.kind = "record_limit", !.payload = p]
    /\ UNCHANGED << access_token, race_plot, decorated, lap_chart, now, env_token, file_token, client, token, wrapped_client,
                    aw_rate_limit_until, wrappers, cars_cache, cars_cache_time,
                    user_channels, jobs, sched, cmd, posted >>

\* A timer of the event loop fires: the loop's next iteration, or the end of
\* rate_limit_handler's sleep.
TimerFire(dbok) ==
    /\ \/ sched.pc = "idle" /\ now >= sched.next_iteration
       \/ sched.pc = "rl_sleep" /\ now >= sched.sleep_until
    /\ FreeSlots(jobs) # {}
    /\ LET res == IF sched.pc = "idle"
                  THEN startLoopForUpdates(World,
                           [sched EXCEPT !.next_iteration = now + LoopInterval], dbok)
                  ELSE rate_limit_handler_resume(World, sched)
       IN  /\ Commit(res.W)
           /\ sched' = res.s
           /\ ev' = [NoEvent EXCEPT !.caught = res.caught]
    /\ UNCHANGED << decorated, lap_chart, now, env_token, aw_rate_limit_until, cmd, posted >>

\* A queued job gets its thread and runs to its first request or to its return.
JobStart(i) ==
    /\ jobs[i].pc = "start"
    /\ LET W == job_start(World, i)
       IN  Commit(W) /\ posted' = Disturb(user_channels, W.user_channels)
    /\ ev' = NoEvent
    /\ UNCHANGED << decorated, lap_chart, now, env_token, aw_rate_limit_until, sched, cmd >>

\* The OAuth endpoint answers the thread of slot i.
OAuthReply(i, r) ==
    /\ jobs[i].pc \in {"oauth", "reauth"}
    /\ LET W == IF jobs[i].pc = "oauth" THEN job_oauth(World, i, r)
                ELSE job_reauth(World, i, r)
       IN  Commit(W) /\ posted' = Disturb(user_channels, W.user_channels)
    /\ ev' = NoEvent
    /\ UNCHANGED << decorated, lap_chart, now, env_token, aw_rate_limit_until, sched, cmd >>

\* The data API answers the thread of slot i.
CallReply(i, r) ==
    /\ jobs[i].pc \in {"call", "retry"}
    /\ LET W == job_call(World, i, r)
       IN  Commit(W) /\ posted' = Disturb(user_channels, W.user_channels)
    /\ ev' = NoEvent
    /\ UNCHANGED << decorated, lap_chart, now, env_token, aw_rate_limit_until, sched, cmd >>

\* The scheduler coroutine resumes with the result of the job it awaits.
SchedJobDone(i, found, dbok) ==
    /\ sched.pc \in {"wait_race", "wait_fmt", "wait_chart"}
    /\ jobs[i].pc = "done" /\ jobs[i].owner = "sched" /\ jobs[i].fn = AwaitedFn(sched)
    /\ LET j == jobs[i]
           res == processAndPostRace_resume([World EXCEPT !.jobs[i] = FreeJob],
                                            sched, j, found, dbok)
           kind == CASE sched.pc = "wait_race" /\ j.result # "ok" -> "no_new_race"
                     [] sched.pc = "wait_fmt" /\ j.result # "ok" -> "format_failed"
                     [] sched.pc = "wait_chart" /\ j.result # "rate_limit" /\ ~found
                                                               -> "no_channel"
                     [] OTHER -> None
       IN  /\ Commit(res.W)
           /\ sched' = res.s
           /\ ev' = IF kind = None THEN [NoEvent EXCEPT !.caught = res.caught]
                    ELSE [ kind |-> kind, user |-> sched.user, channel |-> sched.channel,
                           race |-> IF sched.pc = "wait_race" THEN j.race ELSE sched.last_race,
                           saved |-> IF sched.pc = "wait_race" THEN j.saved ELSE sched.saved,
                           clean |-> ~sched.disturbed, caught |-> res.caught,
                           payload |-> NoPayload, image |-> None ]
    /\ UNCHANGED << decorated, lap_chart, now, env_token, aw_rate_limit_until, cmd, posted >>

\* postRaceToDiscord returns.  outcome: "sent" everything was delivered,
\* "text_only" the message was delivered and the chart upload raised,
\* "failed" the message was not delivered.
PostReply(outcome, dbok) ==
    /\ sched.pc = "posting"
    /\ outcome = "text_only" => sched.chart
    /\ FreeSlots(jobs) # {}
    /\ LET res == next_user(World, sched, dbok)
           p == << sched.user, sched.channel >>
       IN  /\ Commit(res.W)
           /\ sched' = res.s
           /\ ev' = [ kind |-> IF outcome = "failed" THEN "send_failed" ELSE "post",
                      user |-> sched.user, channel |-> sched.channel,
                      race |-> sched.last_race, saved |-> sched.saved,
                      clean |-> ~sched.disturbed, caught |-> res.caught,
                      payload |-> NoPayload,
                      \* if chart_path: open(chart_path, "rb"), once the message is out
                      image |-> IF outcome = "sent" /\ sched.chart THEN race_plot ELSE None ]
           /\ posted' = IF outcome = "failed" THEN posted
                        ELSE [posted EXCEPT ![p] = [t |-> sched.last_race, fresh |-> TRUE]]
    /\ UNCHANGED << decorated, lap_chart, now, env_token, aw_rate_limit_until, cmd >>

\* the current poll's subscription row was changed by a command
Disturbed(db1) ==
    IF sched.pc # "idle"
       /\ RowState(user_channels, << sched.user, sched.channel >>)
              # RowState(db1, << sched.user, sched.channel >>)
    THEN [sched EXCEPT !.disturbed = TRUE] ELSE sched

\* !addUser u in channel c, up to its await; at most max commands in a run
AddUserWithin(u, c, max) ==
    /\ cmd.pc = "idle"
    /\ cmd.issued < max
    /\ FreeSlots(jobs) # {}
    /\ Len(user_channels) < MaxRows \/ HasRow(user_channels, u, c)
    /\ Commit(Submit(World, "cmd", "getDriverName", u, c, None))
    /\ cmd' = [CmdIdle(cmd.issued + 1) EXCEPT !.pc = "wait_name", !.user = u, !.channel = c]
    /\ ev' = NoEvent
    /\ UNCHANGED << decorated, lap_chart, now, env_token, aw_rate_limit_until, sched, posted >>

AddUser(u, c) == AddUserWithin(u, c, MaxCommands)

\* addUser resumes with the driver name
AddUserDone(i) ==
    /\ cmd.pc = "wait_name"
    /\ jobs[i].pc = "done" /\ jobs[i].owner = "cmd"
    /\ LET db1 == IF jobs[i].result = "ok"
                  THEN save_user_channel(user_channels, cmd.user, cmd.channel)
                  ELSE user_channels
       IN  /\ Commit([World EXCEPT !.jobs[i] = FreeJob, !.user_channels = db1])
           /\ posted' = Disturb(user_channels, db1)
           /\ sched' = Disturbed(db1)
    /\ cmd' = CmdIdle(cmd.issued)
    \* "... has been added" / "Failed to add User ID ..."
    /\ ev' = [NoEvent EXCEPT !.kind = IF jobs[i].result = "ok" THEN "added" ELSE "add_failed",
                             !.user = cmd.user, !.channel = cmd.channel]
    /\ UNCHANGED << decorated, lap_chart, now, env_token, aw_rate_limit_until >>

\* !removeUser u in channel c
RemoveUser(u, c) ==
    /\ LET db1 == remove_user_from_channel(user_channels, u, c)
       IN  /\ Commit([World EXCEPT !.user_channels = db1])
           /\ posted' = Disturb(user_channels, db1)
           /\ sched' = Disturbed(db1)
    /\ ev' = NoEvent
    /\ UNCHANGED << decorated, lap_chart, now, env_token, aw_rate_limit_until, cmd >>

\* !postRace cust_id subsession_id.  valid: both arguments are positive
\* numbers.  With valid arguments the handler sends its status message and
\* evaluates irApi.getRaceBySubsessionId, a name iRacingApi.py does not
\* define: the AttributeError is reported to the channel and nothing was
\* submitted to the pool.
PostRace(u, valid) ==
    /\ ev' = [NoEvent EXCEPT !.kind = IF valid THEN "post_race_error" ELSE "post_race_invalid",
                             !.user = u]
    /\ UNCHANGED << access_token, race_plot, decorated, lap_chart, now, env_token, file_token, client, token, wrapped_client,
                    rate_limit_until, rate_limit_reset, aw_rate_limit_until, wrappers,
                    cars_cache, cars_cache_time, user_channels, jobs, sched, cmd, posted >>

\* postRace from the return of the job it awaits on, with getRaceBySubsessionId
\* in place.  found: whether bot.get_channel knows the channel.
postRace_resume(W, k, j, found) ==
    CASE j.result \in {"raise", "rate_limit"} ->        \* except Exception as e
            [ W |-> W, k |-> CmdIdle(k.issued) ]
      [] k.pc = "wait_data" ->
            IF j.result = "ok"
            THEN [ W |-> Submit(W, "cmd", "raceAndDriverData", k.user, k.channel, k.race),
                   k |-> [k EXCEPT !.pc = "wait_fmt"] ]
            ELSE [ W |-> W, k |-> CmdIdle(k.issued) ]
      [] k.pc = "wait_fmt" ->
            IF j.result = "ok"
            THEN [ W |-> Submit(W, "cmd", "getLapsChart", k.user, k.channel, k.race),
                   k |-> [k EXCEPT !.pc = "wait_chart"] ]
            ELSE [ W |-> W, k |-> CmdIdle(k.issued) ]
      [] OTHER ->
            IF found
            THEN [ W |-> W, k |-> [k EXCEPT !.pc = "posting", !.chart = (j.result = "ok")] ]
            ELSE [ W |-> W, k |-> CmdIdle(k.issued) ]

\* !postRace u race in channel c with valid arguments, up to the await of
\* getRaceBySubsessionId
PostRaceBegin(u, c, race) ==
    /\ cmd.pc = "idle"
    /\ cmd.issued < MaxCommands
    /\ FreeSlots(jobs) # {}
    /\ Commit(Submit(World, "cmd", "getRaceBySubsessionId", u, c, race))
    /\ cmd' = [CmdIdle(cmd.issued + 1) EXCEPT !.pc = "wait_data", !.user = u, !.channel = c,
                                              !.race = race]
    /\ ev' = NoEvent
    /\ UNCHANGED << decorated, lap_chart, now, env_token, aw_rate_limit_until, sched, posted >>

\* postRace resumes with the result of the job it awaits.
PostRaceJobDone(i, found) ==
    /\ cmd.pc \in {"wait_data", "wait_fmt", "wait_chart"}
    /\ jobs[i].pc = "done" /\ jobs[i].owner = "cmd"
    /\ LET res == postRace_resume([World EXCEPT !.jobs[i] = FreeJob], cmd, jobs[i], found)
       IN  /\ Commit(res.W)
           /\ cmd' = res.k
           /\ ev' = IF res.k.pc = "idle"
                    THEN [NoEvent EXCEPT !.kind = "post_race_error", !.user = cmd.user,
                                         !.channel = cmd.channel, !.race = cmd.race]
                    ELSE NoEvent
    /\ UNCHANGED << decorated, lap_chart, now, env_token, aw_rate_limit_until, sched, posted >>

\* postRaceToDiscord returns to postRace.  outcome as in PostReply.
PostRaceReply(outcome) ==
    /\ cmd.pc = "posting"
    /\ outcome = "text_only" => cmd.chart
    /\ cmd' = CmdIdle(cmd.issued)
    /\ ev' = [NoEvent EXCEPT
                 !.kind = IF outcome = "failed" THEN "post_race_failed" ELSE "post_race",
                 !.user = cmd.user, !.channel = cmd.channel, !.race = cmd.race,
                 \* if chart_path: open(chart_path, "rb"), once the message is out
                 !.image = IF outcome = "sent" /\ cmd.chart THEN race_plot ELSE None]
    /\ UNCHANGED << access_token, race_plot, decorated, lap_chart, now, env_token, file_token, client, token,
                    wrapped_client, rate_limit_until, rate_limit_reset, aw_rate_limit_until,
                    wrappers, cars_cache, cars_cache_time, user_channels, jobs, sched, posted >>

(***************************************************************************)
(* Specifications.  Each one runs the same program in an environment that  *)
(* offers a part of what the full environment can do.                      *)
(***************************************************************************)
OAuthPlain == { r \in OAuthReplies : r.kind # "rate_limit" }
CallsOneRace == { r \in CallReplies : r.race # "T2" }
CallsAccepted == { r \in CallReplies : r.kind \notin {"token", "json"} }

\* One subscription; the provider never throttles and accepts the token it
\* issued; the subscription is removed and added again; the process crashes
\* and restarts.
InitDedup == InitWith(<< Row("u1", "c1") >>, {NoToken})

NextDedup ==
    \/ \E d \in TickSteps : Tick(d, MaxTimeCommands)
    \/ Restart
    \/ TimerFire(TRUE)
    \/ \E i \in Slots : JobStart(i)
    \/ \E i \in Slots, r \in OAuthPlain : OAuthReply(i, r)
    \/ \E i \in Slots, r \in CallsAccepted : CallReply(i, r)
    \/ \E i \in Slots, found \in BOOLEAN : SchedJobDone(i, found, TRUE)
    \/ \E outcome \in {"sent", "text_only", "failed"} : PostReply(outcome, TRUE)
    \/ AddUser("u1", "c1")
    \/ \E i \in Slots : AddUserDone(i)
    \/ RemoveUser("u1", "c1")

SpecDedup == InitDedup /\ [][NextDedup]_vars

\* Two subscriptions of one channel, polled by the scheduler alone; the
\* OAuth endpoint may throttle.
InitThrottle == InitWith(<< Row("u1", "c1"), Row("u2", "c1") >>, {NoToken})

NextThrottle ==
    \/ \E d \in TickSteps : Tick(d, MaxTime)
    \/ TimerFire(TRUE)
    \/ \E i \in Slots : JobStart(i)
    \/ \E i \in Slots, r \in OAuthReplies : OAuthReply(i, r)
    \/ \E i \in Slots, r \in CallsOneRace : CallReply(i, r)
    \/ \E i \in Slots : SchedJobDone(i, TRUE, TRUE)
    \/ PostReply("sent", TRUE)

SpecThrottle == InitThrottle /\ [][NextThrottle]_vars

\* Two channels with one subscription each; reading the table may fail.
InitCycle == InitWith(<< Row("u1", "c1"), Row("u2", "c2") >>, {NoToken, EnvToken})

NextCycle ==
    \/ \E d \in TickSteps : Tick(d, MaxTime)
    \/ \E dbok \in BOOLEAN : TimerFire(dbok)
    \/ \E i \in Slots : JobStart(i)
    \/ \E i \in Slots, r \in OAuthPlain : OAuthReply(i, r)
    \/ \E i \in Slots, r \in CallsOneRace : CallReply(i, r)
    \/ \E i \in Slots, dbok \in BOOLEAN : SchedJobDone(i, TRUE, dbok)
    \/ \E dbok \in BOOLEAN : PostReply("sent", dbok)

SpecCycle == InitCycle /\ [][NextCycle]_vars

\* One subscription polled by the scheduler while addUser commands for
\* another user run; the OAuth endpoint may throttle.
InitCommands == InitWith(<< Row("u1", "c1") >>, {NoToken})

NextCommands ==
    \/ \E d \in TickSteps : Tick(d, MaxTimeCommands)
    \/ TimerFire(TRUE)
    \/ \E i \in Slots : JobStart(i)
    \/ \E i \in Slots, r \in OAuthReplies : OAuthReply(i, r)
    \/ \E i \in Slots, r \in CallsOneRace : CallReply(i, r)
    \/ \E i \in Slots : SchedJobDone(i, TRUE, TRUE)
    \/ PostReply("sent", TRUE)
    \/ AddUser("u2", "c1")
    \/ \E i \in Slots : AddUserDone(i)

SpecCommands == InitCommands /\ [][NextCommands]_vars

\* One subscription polled by the scheduler; the .env file starts empty, with
\* a valid, an expired or a corrupt token; the OAuth endpoint hands out
\* tokens with and without a lifetime; the process crashes and restarts.
ShortExpiresIn == 360
OAuthRepliesTtl ==
    OAuthPlain \cup { [kind |-> "ok", token |-> t, expires_in |-> ShortExpiresIn,
                       payload |-> NoPayload] : t \in ProviderTokens }

InitTokenCache ==
    InitWith(<< Row("u1", "c1") >>, {NoToken, EnvToken, ExpiredToken, CorruptToken})

NextTokenCache ==
    \/ \E d \in TickSteps : Tick(d, MaxTime)
    \/ Restart
    \/ TimerFire(TRUE)
    \/ \E i \in Slots : JobStart(i)
    \/ \E i \in Slots, r \in OAuthRepliesTtl : OAuthReply(i, r)
    \/ \E i \in Slots, r \in CallsOneRace : CallReply(i, r)
    \/ \E i \in Slots : SchedJobDone(i, TRUE, TRUE)
    \/ PostReply("sent", TRUE)

SpecTokenCache == InitTokenCache /\ [][NextTokenCache]_vars

\* The subscription commands of one channel, on an empty table, while the
\* scheduler's first cycle polls what is subscribed; the token of the
\* environment is valid and the provider answers every call.
CallsAnswered == { r \in CallsOneRace : r.kind \in {"ok", "empty"} }

\* One subscription polled by the scheduler's first cycle while a postRace
\* command for another race runs; the token of the environment is valid and
\* the provider answers every call.
InitChartFile == InitWith(<< Row("u1", "c1") >>, {EnvToken})

NextChartFile ==
    \/ TimerFire(TRUE)
    \/ \E i \in Slots : JobStart(i)
    \/ \E i \in Slots, r \in CallsAnswered : CallReply(i, r)
    \/ \E i \in Slots : SchedJobDone(i, TRUE, TRUE)
    \/ \E outcome \in {"sent", "failed"} : PostReply(outcome, TRUE)
    \/ PostRaceBegin("u2", "c1", "T2")
    \/ \E i \in Slots : PostRaceJobDone(i, TRUE)
    \/ \E outcome \in {"sent", "failed"} : PostRaceReply(outcome)

SpecChartFile == InitChartFile /\ [][NextChartFile]_vars

\* One user subscribed in two channels, polled by the scheduler's first two
\* cycles; the token of the environment is valid, the provider answers every
\* call and the chat platform may refuse a message.
InitChannels == InitWith(<< Row("u1", "c1"), Row("u1", "c2") >>, {EnvToken})

NextChannels ==
    \/ \E d \in TickSteps : Tick(d, MaxTimeCommands)
    \/ TimerFire(TRUE)
    \/ \E i \in Slots : JobStart(i)
    \/ \E i \in Slots, r \in CallsAnswered : CallReply(i, r)
    \/ \E i \in Slots : SchedJobDone(i, TRUE, TRUE)
    \/ \E outcome \in {"sent", "failed"} : PostReply(outcome, TRUE)

SpecChannels == InitChannels /\ [][NextChannels]_vars

InitSubscriptions == InitWith(<< >>, {EnvToken})

NextSubscriptions ==
    \/ TimerFire(TRUE)
    \/ \E i \in Slots : JobStart(i)
    \/ \E i \in Slots, r \in CallsAnswered : CallReply(i, r)
    \/ \E i \in Slots : SchedJobDone(i, TRUE, TRUE)
    \/ PostReply("sent", TRUE)
    \/ \E u \in Users : AddUserWithin(u, "c1", MaxAdds)
    \/ \E i \in Slots : AddUserDone(i)
    \/ \E u \in Users : RemoveUser(u, "c1")
    \/ \E u \in Users, valid \in BOOLEAN : PostRace(u, valid)

SpecSubscriptions == InitSubscriptions /\ [][NextSubscriptions]_vars

\* One subscription polled by the scheduler over more than an hour, a new
\* race at every poll or not; the OAuth endpoint may throttle and the data
\* calls may fail, so that the car cache is filled, runs out and is filled
\* again or cannot be.
InitCars == InitWith(<< Row("u1", "c1") >>, {NoToken})

NextCars ==
    \/ \E d \in CarsSteps : Tick(d, MaxTimeCars)
    \/ TimerFire(TRUE)
    \/ \E i \in Slots : JobStart(i)
    \/ \E i \in Slots, r \in OAuthReplies : OAuthReply(i, r)
    \/ \E i \in Slots, r \in CallReplies : CallReply(i, r)
    \/ \E i \in Slots : SchedJobDone(i, TRUE, TRUE)
    \/ PostReply("sent", TRUE)

SpecCars == InitCars /\ [][NextCars]_vars

\* One subscription polled by the scheduler; the OAuth endpoint throttles
\* up to ThrottleEnd and not later, and the clock runs on past the end of
\* a block of one minute.  Nothing stops while a step can be taken: time passes,
\* the event loop runs what is ready, the pool's threads run, and every
\* request returns (requests.post has timeout=20).
InitRecovery == InitWith(<< Row("u1", "c1") >>, {NoToken})

NextRecovery ==
    \/ \E d \in RecoverySteps : Tick(d, MaxTimeRecovery)
    \/ TimerFire(TRUE)
    \/ \E i \in Slots : JobStart(i)
    \/ \E i \in Slots, r \in OAuthPlain : OAuthReply(i, r)
    \/ \E i \in Slots, r \in OAuthReplies \ OAuthPlain :
           now <= ThrottleEnd /\ OAuthReply(i, r)
    \/ \E i \in Slots, r \in CallsOneRace : CallReply(i, r)
    \/ \E i \in Slots : SchedJobDone(i, TRUE, TRUE)
    \/ \E outcome \in {"sent", "failed"} : PostReply(outcome, TRUE)

SpecRecovery == InitRecovery /\ [][NextRecovery]_vars /\ WF_vars(NextRecovery)

(***************************************************************************)
(* The chart alone: getLapsChart's reconstruction applied, up to MaxRuns   *)
(* times in the same process, to the data of one race.                     *)
(***************************************************************************)
IndividualCharts ==
    UNION {{[NoChart EXCEPT !.lap_data = IndividualLapData(laps, order),
                            !.session_results = Sessions(IndividualResults(fin), race),
                            !.highlighted_cust_id = h] :
               order \in Standings(ChartDrivers, laps), h \in {1, 3}, race \in BOOLEAN,
               fin \in Orders(ChartDrivers) \cup Orders(ChartDrivers \ {3})} :
           laps \in [ChartDrivers -> 0..MaxLap]}

TeamCharts ==
    UNION {{[NoChart EXCEPT !.lap_data = TeamLapData(laps, order, first),
                            !.session_results = Sessions(TeamResults(fin), race),
                            !.highlighted_cust_id = h] :
               order \in Standings(ChartTeams, laps), h \in {2, 3}, race \in BOOLEAN,
               first \in [ChartTeams -> {0, 1}], fin \in Orders(ChartTeams)} :
           laps \in [ChartTeams -> 0..MaxLap]}

InitChart ==
    /\ InitProcess(<< >>, {NoToken})
    /\ lap_chart \in IndividualCharts \cup TeamCharts
    /\ decorated = NoCall

DrawChart ==
    /\ lap_chart.runs < MaxRuns
    /\ lap_chart' = getLapsChart_draw(lap_chart)
    /\ UNCHANGED << access_token, race_plot, decorated, now, env_token, file_token, client, token, wrapped_client,
                    rate_limit_until, rate_limit_reset, aw_rate_limit_until, wrappers,
                    cars_cache, cars_cache_time, user_channels, jobs, sched, cmd, posted, ev >>

NextChart == DrawChart

SpecChart == InitChart /\ [][NextChart]_vars

\* The decorators alone: one call of a wrapped function per run, the
\* function ending in any way each time it is called.  Every call of the
\* function and every sleep ends.
RetryArgs == 0..MaxRetriesArg
BaseDelays == {DefaultBaseDelay, 1}
SecondsRemaining == {0, 65}

DecoratedCalls ==
    { [NoCall EXCEPT !.deco = "retry_on_transient_error", !.pc = "start",
                     !.max_retries = m, !.base_delay = b] :
          m \in RetryArgs, b \in BaseDelays }
    \cup { [NoCall EXCEPT !.deco = "rate_limit_handler", !.pc = "start"] }

InitDecorators ==
    /\ InitProcess(<< >>, {NoToken})
    /\ lap_chart = NoChart
    /\ decorated \in DecoratedCalls

Decorated(d) ==
    /\ decorated' = d
    /\ UNCHANGED << access_token, race_plot, lap_chart, now, env_token, file_token, client, token, wrapped_client,
                    rate_limit_until, rate_limit_reset, aw_rate_limit_until, wrappers,
                    cars_cache, cars_cache_time, user_channels, jobs, sched, cmd, posted, ev >>

\* The wrapper is called, or its sleep ends: the loop's condition is tested.
WrapperLoop ==
    /\ decorated.pc \in {"start", "sleeping"}
    /\ Decorated(IF decorated.deco = "retry_on_transient_error"
                 THEN retry_on_transient_error_while(decorated)
                 ELSE rate_limit_handler_while(decorated))

\* The function wrapped by retry_on_transient_error ends.
RetriedFuncDone(outcome) ==
    /\ decorated.pc = "calling" /\ decorated.deco = "retry_on_transient_error"
    /\ Decorated(retry_on_transient_error_except(decorated, outcome))

\* The coroutine wrapped by rate_limit_handler ends.
HandledFuncDone(outcome, secs) ==
    /\ decorated.pc = "calling" /\ decorated.deco = "rate_limit_handler"
    /\ Decorated(rate_limit_handler_except(decorated, outcome, secs))

NextDecorators ==
    \/ WrapperLoop
    \/ \E outcome \in {"ok", "transient", "runtime", "error"} : RetriedFuncDone(outcome)
    \/ \E outcome \in {"ok", "rate_limit", "error"}, secs \in SecondsRemaining :
           HandledFuncDone(outcome, secs)

SpecDecorators == InitDecorators /\ [][NextDecorators]_vars /\ WF_vars(NextDecorators)

\* The tracker alone: limits are recorded at any time, with any payload.
InitTracker == InitWith(<< >>, {NoToken})

NextTracker ==
    \/ \E d \in TrackerSteps : Tick(d, MaxTimeTracker)
    \/ \E p \in Payloads : RecordLimit(p)

SpecTracker == InitTracker /\ [][NextTracker]_vars

(***************************************************************************)
(* Properties                                                              *)
(***************************************************************************)
\* what the table holds for (u, c): the last_race_time of its row, None without
PersistedTime(db, u, c) ==
    IF \E k \in 1..Len(db) : db[k].user_id = u /\ db[k].channel_id = c
    THEN LET k == CHOOSE k \in 1..Len(db) : db[k].user_id = u /\ db[k].channel_id = c
         IN  db[k].last_race_time
    ELSE None

\* the M of a payload: the number after "resets in", 3600 when the phrase or
\* the JSON around it cannot be read
ResetSeconds(p) == IF p.json /\ p.reset >= 0 THEN p.reset ELSE 3600

\* C6: recording a limit at time t with "resets in M seconds" sets the reset
\* time to t+M and the block to t+M+10 whatever they were, so that the
\* remaining time is M+10 at once (3610 for M = 3600, and for a payload that
\* cannot be parsed); while no other limit is recorded the remaining time
\* never grows as time advances; it is 0 exactly from the end of the block on.
C6_RecordLimit ==
    /\ [](/\ ev.kind = "record_limit" =>
                /\ rate_limit_reset = now + ResetSeconds(ev.payload)
                /\ rate_limit_until = now + ResetSeconds(ev.payload) + 10
                /\ get_rate_limit_remaining(rate_limit_until, now) = ResetSeconds(ev.payload) + 10
          /\ (ev.kind = "record_limit" /\ (~ev.payload.json \/ ev.payload.reset = 3600)) =>
                get_rate_limit_remaining(rate_limit_until, now) = 3610
          /\ get_rate_limit_remaining(rate_limit_until, now) = 0 <=> now >= rate_limit_until
          /\ is_rate_limited(rate_limit_until, now) <=> now < rate_limit_until)
    /\ [][rate_limit_until' = rate_limit_until =>
             get_rate_limit_remaining(rate_limit_until', now')
                 <= get_rate_limit_remaining(rate_limit_until, now)]_vars

\* C6 witness: a limit recorded, not at the start, from a payload that is not JSON
C6_Witness ==
    /\ ev.kind = "record_limit" /\ ~ev.payload.json
    /\ now > 0
    /\ rate_limit_until = now + 3610

Subscribed(db, u, c) == \E k \in 1..Len(db) : db[k].user_id = u /\ db[k].channel_id = c

\* the thread of slot i returns from fn in this step
Returns(i, fn) ==
    /\ jobs[i].fn = fn
    /\ jobs[i].pc \in {"start", "oauth", "call", "reauth", "retry"}
    /\ jobs'[i].pc = "done"

\* the process is killed and started again in this step
Crash == jobs' = [i \in Slots |-> FreeJob] /\ sched'.pc = "idle" /\ ev' = NoEvent

Downstream == {"wait_fmt", "wait_chart", "posting"}

\* C1: a poll posts only a race whose timestamp differs from the value that
\* was persisted for the pair when it was fetched (or none was persisted), and
\* once it has posted, the persisted value of the subscription is the fetched
\* timestamp (unless a command touched the row meanwhile); a poll that fetched
\* a race and ends without a post and without a failure fetched the persisted
\* timestamp; a poll that detected a new race ends in one post, or in a
\* failure of formatting, of the channel lookup or of the sending, or in a crash.
C1_PostIffNew ==
    /\ [](/\ ev.kind = "post" =>
                /\ ev.race # None
                /\ ev.saved # ev.race
                /\ (ev.clean /\ Subscribed(user_channels, ev.user, ev.channel)) =>
                       PersistedTime(user_channels, ev.user, ev.channel) = ev.race
          /\ (ev.kind = "no_new_race" /\ ev.race # None) => ev.saved = ev.race)
    /\ [][(sched.pc \in Downstream /\ sched'.pc \notin Downstream) =>
             \/ ev'.kind \in {"post", "format_failed", "no_channel", "send_failed"}
             \/ Crash]_vars

\* C1 witness: race B is posted after race A had been persisted
C1_Witness ==
    /\ ev.kind = "post" /\ ev.saved = "T1" /\ ev.race = "T2"
    /\ PersistedTime(user_channels, ev.user, ev.channel) = "T2"

\* C2: when getLastRaceIfNew has fetched a race, it returns it and sets the
\* subscription's persisted timestamp to the fetched one (touching no other
\* row) if none was persisted or another one was; it returns "no new race"
\* and leaves the table alone if the persisted timestamp is the fetched one.
C2_NewOrSame ==
    [][\A i \in Slots :
          (Returns(i, "getLastRaceIfNew") /\ jobs'[i].race # None) =>
              LET u == jobs[i].user
                  c == jobs[i].channel
                  t == jobs'[i].race
                  old == PersistedTime(user_channels, u, c)
              IN  IF old = None \/ old # t
                  THEN /\ jobs'[i].result = "ok"
                       /\ Len(user_channels') = Len(user_channels)
                       /\ \A k \in 1..Len(user_channels) :
                             user_channels'[k] =
                                 IF user_channels[k].user_id = u /\ user_channels[k].channel_id = c
                                 THEN [user_channels[k] EXCEPT !.last_race_time = t]
                                 ELSE user_channels[k]
                  ELSE /\ jobs'[i].result = "none"
                       /\ user_channels' = user_channels]_vars

\* C2 witness: the second fetch of the timestamp that the first fetch persisted
C2_Witness ==
    \E i \in Slots :
        /\ jobs[i].fn = "getLastRaceIfNew" /\ jobs[i].pc = "done"
        /\ jobs[i].result = "none" /\ jobs[i].race = "T1"
        /\ PersistedTime(user_channels, jobs[i].user, jobs[i].channel) = "T1"

\* a result is delivered to Discord in this step
PostStep == sched.pc = "posting" /\ ev'.kind = "post"

\* C3 (amended): while formatting, chart generation and posting run, the
\* subscription's persisted timestamp already is the detected one (unless a
\* command touched the row meanwhile); and a timestamp is not posted twice in
\* a row for a pair while the pair's row stays as it was at the first post.
C3_AtMostOnce ==
    /\ []((sched.pc \in Downstream /\ ~sched.disturbed
              /\ Subscribed(user_channels, sched.user, sched.channel)) =>
            PersistedTime(user_channels, sched.user, sched.channel) = sched.last_race)
    /\ [][PostStep =>
             LET last == posted[<< sched.user, sched.channel >>]
             IN  ~(last.fresh /\ last.t = sched.last_race)]_vars

\* C3 witness: a race was detected and persisted, then never posted (a crash,
\* a failure downstream), and the poll that fetches it again posts nothing
C3_Witness ==
    /\ ev.kind = "no_new_race" /\ ev.race = "T1" /\ ev.saved = "T1"
    /\ posted[<< ev.user, ev.channel >>].t = None

\* C3 as stated: no timestamp is ever posted twice in a row for a pair
C3_NeverTwiceInARow ==
    [][PostStep => posted[<< sched.user, sched.channel >>].t # sched.last_race]_vars

\* C4: getLastRaceIfNew always returns, a race or "no new race"; when it has
\* no race to compare (no client, the tracker limited, a failed provider
\* call, a user without races) it returns "no new race" and the table is as
\* before; with the tracker limited it returns so without any request.
C4_NeverRaises ==
    /\ [](\A i \in Slots :
            (jobs[i].fn = "getLastRaceIfNew" /\ jobs[i].pc = "done") =>
                jobs[i].result \in {"ok", "none"})
    /\ [][\A i \in Slots :
            /\ (Returns(i, "getLastRaceIfNew") /\ jobs'[i].race = None) =>
                  jobs'[i].result = "none" /\ user_channels' = user_channels
            /\ (jobs[i].fn = "getLastRaceIfNew" /\ jobs[i].pc = "start"
                  /\ now < rate_limit_until /\ jobs'[i] # jobs[i]) =>
                  jobs'[i].pc = "done" /\ jobs'[i].result = "none"]_vars

\* C4 witness: "no new race" under a limit, with a timestamp persisted before
C4_Witness ==
    \E i \in Slots :
        /\ jobs[i].fn = "getLastRaceIfNew" /\ jobs[i].pc = "done"
        /\ jobs[i].result = "none" /\ jobs[i].race = None
        /\ now < rate_limit_until
        /\ PersistedTime(user_channels, "u1", "c1") = "T1"

\* the thread of slot i sends a request (OAuth or data) in this step
Issued(i) ==
    /\ jobs'[i].pc \in {"oauth", "call", "reauth", "retry"}
    /\ << jobs'[i].pc, jobs'[i].stage >> # << jobs[i].pc, jobs[i].stage >>

\* C5 as stated: while a recorded limit lasts (now < blocked until), no
\* thread sends a request to the provider
C5_SilentWhileLimited ==
    [][\A i \in Slots : (now < rate_limit_until) => ~Issued(i)]_vars

\* the loop's timer fires and is armed again in this step
WakeStep ==
    sched.pc = "idle" /\ now >= sched.next_iteration /\ sched'.next_iteration > now

\* C7 as stated: a cycle that starts under a limit does no work (no job is
\* submitted, no subscription is processed) and the next wake is
\* remaining + 5 seconds away; a cycle that starts without a limit leaves
\* the next wake 60 seconds away
C7_ThrottledCycle ==
    [][WakeStep =>
          IF now < rate_limit_until
          THEN /\ sched'.pc = "idle"
               /\ jobs' = jobs
               /\ sched'.next_iteration
                      = now + get_rate_limit_remaining(rate_limit_until, now) + 5
          ELSE sched'.next_iteration = now + 60]_vars

\* C8 as stated: within a cycle the scheduler goes on to another user only
\* while the tracker is not limited
C8_TruncatedScan ==
    [][(sched.pc \in {"wait_race", "wait_fmt", "wait_chart", "posting"}
          /\ sched'.pc = "wait_race" /\ sched'.users # sched.users) =>
          ~(now < rate_limit_until)]_vars

\* C9: an exception in a cycle ends the cycle and nothing else: the
\* scheduler is idle with its timer armed and no job of its own left, it
\* never stops, and the wake that follows an abandoned cycle processes the
\* first subscription as any cycle does.
C9_CycleSurvives ==
    /\ [](sched.pc \in {"idle", "wait_race", "wait_fmt", "wait_chart", "posting", "rl_sleep"})
    /\ [][ev'.caught =>
             /\ sched'.pc = "idle"
             /\ sched'.next_iteration \in {sched.next_iteration, now + 60}
             /\ \A i \in Slots : jobs'[i].owner # "sched"]_vars
    /\ [][(ev.caught /\ WakeStep /\ ~ev'.caught) =>
             /\ sched'.pc = "wait_race"
             /\ sched'.user = user_channels[1].user_id
             /\ sched'.channel = user_channels[1].channel_id]_vars

\* C9 witness: the cycle is abandoned after it has posted for its first user
C9_Witness == ev.caught /\ ev.kind = "post" /\ sched.pc = "idle"

InFlight(i) == jobs[i].pc \in {"oauth", "call", "reauth", "retry"}

\* C10 (amended): the scheduler has at most one job in the pool at any time,
\* the one it awaits for the user it is processing.
C10_SchedulerSequential ==
    /\ Cardinality({i \in Slots : jobs[i].owner = "sched"}) <= 1
    /\ \A i \in Slots :
          jobs[i].owner = "sched" =>
              /\ sched.pc \in {"wait_race", "wait_fmt", "wait_chart"}
              /\ jobs[i].fn = AwaitedFn(sched)
              /\ jobs[i].user = sched.user /\ jobs[i].channel = sched.channel

\* C10 witness: a fetch of the scheduler and a fetch of addUser, for another
\* user, wait for the provider at the same time
C10_Witness ==
    \E i, k \in Slots :
        /\ jobs[i].owner = "sched" /\ jobs[k].owner = "cmd"
        /\ InFlight(i) /\ InFlight(k)
        /\ jobs[i].user # jobs[k].user

\* C10 as stated: no two fetches for different users are in flight at once
C10_NoTwoUsersInFlight ==
    \A i, k \in Slots : (InFlight(i) /\ InFlight(k)) => jobs[i].user = jobs[k].user

\* C11 as stated: at most one live client handle exists in the process at
\* any time (the one the manager caches; every thread and every wrapper that
\* holds a handle holds that one)
C11_OneLiveHandle ==
    /\ Cardinality(LiveHandles(World)) <= 1
    /\ client # None => LiveHandles(World) = {client}

WrappedStages == {"recent", "result", "cars"}
AuthFaults == {"token", "json"}

\* the thread of slot i has cleared the manager and holds the new handle in its wrapper
Reauthenticated(i) ==
    /\ jobs'[i].pc = "retry" /\ jobs'[i].stage = jobs[i].stage /\ jobs'[i].w = jobs[i].w
    /\ client' # None /\ token' # None
    /\ wrappers'[jobs[i].w] = client'
    /\ client' # wrappers[jobs[i].w]

\* C12: a call through the wrapper that fails with AccessTokenInvalid or
\* JSONDecodeError clears handle, token and wrapper and calls login(): with a
\* new client the same call is sent once more on the new handle, with the
\* OAuth request pending the manager stays cleared, and without a client
\* (tracker limited, OAuth failed) the exception reaches the caller.  The
\* retry is the call's last attempt: whatever it returns, the thread neither
\* repeats the call nor authenticates again for it.
C12_RetryOnce ==
    /\ [][\A i \in Slots, r \in CallsOneRace :
            (CallReply(i, r) /\ jobs[i].pc = "call" /\ jobs[i].stage \in WrappedStages
                /\ r.kind \in AuthFaults) =>
                /\ wrapped_client' = None
                /\ IF now < rate_limit_until
                   THEN jobs'[i].pc = "done" /\ client' = None /\ token' = None
                   ELSE \/ Reauthenticated(i)
                        \/ /\ jobs'[i].pc = "reauth" /\ jobs'[i].stage = jobs[i].stage
                           /\ client' = None /\ token' = None]_vars
    /\ [][\A i \in Slots, r \in OAuthReplies :
            (OAuthReply(i, r) /\ jobs[i].pc = "reauth") =>
                IF r.kind = "ok" THEN Reauthenticated(i) ELSE jobs'[i].pc = "done"]_vars
    /\ [][\A i \in Slots, r \in CallsOneRace :
            (CallReply(i, r) /\ jobs[i].pc = "retry") =>
                /\ jobs'[i].pc \notin {"retry", "reauth"}
                /\ jobs'[i].stage # jobs[i].stage
                /\ r.kind \notin {"ok", "empty"} => jobs'[i].pc = "done"]_vars

\* C12 witness: a retry is in flight on a handle obtained after the clearing
C12_Witness ==
    \E i \in Slots :
        /\ jobs[i].pc = "retry" /\ jobs[i].stage = "recent"
        /\ client # None /\ wrappers[jobs[i].w] = client /\ wrapped_client = None

\* C13 as stated: whatever data call a thread has made (recent races, full
\* result, lap-chart data, member profile, car catalog), a first
\* AccessTokenInvalid on it, with the tracker not limited, is followed by a
\* re-authentication and a retry of the call, never by the caller's return
C13_EveryCallWrapped ==
    [][\A i \in Slots, r \in CallsOneRace :
          (CallReply(i, r) /\ jobs[i].pc = "call" /\ r.kind = "token"
              /\ ~(now < rate_limit_until)) =>
              /\ jobs'[i].pc \in {"retry", "reauth"}
              /\ jobs'[i].stage = jobs[i].stage]_vars

\* C14: no function run in the pool ends with an exception; a thread that
\* asks for a client while the tracker is limited returns at once and leaves
\* handle, token and wrapper as they are; a thread whose OAuth exchange
\* fails (401, another status, a timeout) returns, or goes on without a
\* client, having cached no handle, no token and no wrapper.
C14_AbsentNotRaised ==
    /\ [](\A i \in Slots : jobs[i].result # "raise")
    /\ [][\A i \in Slots :
            (JobStart(i) /\ now < rate_limit_until) =>
                /\ jobs'[i].pc = "done" /\ jobs'[i].result = "none"
                /\ client' = client /\ token' = token
                /\ wrapped_client' = wrapped_client]_vars
    /\ [][\A i \in Slots, r \in OAuthReplies :
            (OAuthReply(i, r) /\ r.kind # "ok") =>
                /\ jobs'[i].pc = "done"
                /\ jobs'[i].result = "none"
                /\ client' \in {client, None} /\ token' = None
                /\ wrapped_client' \in {wrapped_client, None}]_vars

\* C14 witness: the OAuth exchange failed without a rate limit; the poll
\* came back without a race and the manager holds nothing
C14_Witness ==
    \E i \in Slots :
        /\ jobs[i].fn = "getLastRaceIfNew" /\ jobs[i].pc = "done" /\ jobs[i].result = "none"
        /\ file_token.token = None /\ rate_limit_until = 0
        /\ client = None /\ token = None /\ wrapped_client = None

\* what the process's environment holds can be loaded now
Loadable == env_token.token # None /\ env_token.parsable /\ now < env_token.expires

\* C15: _get_cached_token returns the token of the environment when a token
\* and a numeric expiry are there and the clock is before the expiry (the
\* .env file then still holds the same two lines), and None in every other
\* case, in which the caller goes on to the OAuth exchange; a token reply
\* received at time t makes the file hold the token with expiry
\* t + expires_in - 300 (expires_in 86400 when the reply has none).
C15_TokenCache ==
    /\ [](IF Loadable
          THEN get_cached_token = env_token.token /\ file_token = env_token
          ELSE get_cached_token = None)
    /\ [][\A i \in Slots :
            (JobStart(i) /\ client = None /\ ~(now < rate_limit_until)) =>
                IF Loadable
                THEN jobs'[i].pc = "call" /\ token' = env_token.token /\ client' # None
                ELSE jobs'[i].pc = "oauth" /\ client' = None]_vars
    /\ [][\A i \in Slots, r \in OAuthRepliesTtl :
            (OAuthReply(i, r) /\ r.kind = "ok") =>
                /\ file_token'.token = r.token /\ file_token'.parsable
                /\ file_token'.expires =
                      now + (IF r.expires_in = -1 THEN 86400 ELSE r.expires_in) - 300]_vars

\* C15 witness: a token stored with a lifetime of 360 seconds by an earlier
\* run of the process is loaded while now is before its expiry
C15_Witness ==
    /\ Loadable /\ env_token.token = "tokA" /\ env_token.expires = now + 60
    /\ token = "tokA" /\ client # None

\* A transient provider fault: the RuntimeError the client library raises for
\* an HTTP 429/502/503/504 is one of the exceptions of kind "error".
TransientFault(r) == r.kind = "error"

\* C16 as stated: a transient fault on a data call does not end the function
\* that made the call; the call is tried again (after a delay), and the
\* function returns its failure only once the retries are used up
C16_TransientRetried ==
    [][\A i \in Slots, r \in CallsOneRace :
          (CallReply(i, r) /\ jobs[i].pc = "call" /\ TransientFault(r)) =>
              /\ jobs'[i].pc # "done"
              /\ jobs'[i].stage = jobs[i].stage]_vars

(***************************************************************************)
(* Claims about the lap chart                                              *)
(***************************************************************************)
\* what the chart was drawn from, read off the input itself
Drawn == lap_chart.runs > 0
TeamChart == is_team_race(lap_chart.results)
RealSamples(e) ==
    SelectSeq(lap_chart.lap_data, LAMBDA smp : EntityOf(smp, TeamChart) = e)
RealLaps(e) == [k \in 1..Len(RealSamples(e)) |-> RealSamples(e)[k].lap_number]
RealPositions(e) == [k \in 1..Len(RealSamples(e)) |-> RealSamples(e)[k].lap_position]
Official == finishing_positions(lap_chart.results)
Line(e) == lap_chart.traces[e].line
Retired(e) ==
    /\ Drawn /\ ~TeamChart
    /\ e \in DOMAIN lap_chart.traces
    /\ e \in DOMAIN Official
    /\ Last(RealLaps(e)) < max_lap(lap_chart.lap_data)

\* C17: in an individual race, an entity whose real samples end before maxLap
\* and that has an official finish position gets, right after its real
\* samples, a point at lastLap + 0.5 whose position is at most its official
\* finish position and at most the number of entities.
C17_DropCapped ==
    \A e \in ChartDrivers :
        Retired(e) =>
            LET k == Len(RealLaps(e)) + 1
            IN  /\ Len(Line(e).laps) = k + 1
                /\ Line(e).laps[k] = LapScale * Last(RealLaps(e)) + HalfLap
                /\ Line(e).positions[k] <= Official[e]
                /\ Line(e).positions[k] <= Cardinality(DOMAIN lap_chart.traces)

\* a retired entity that stood last of all when it retired: one place lower
\* would be off the chart
C17_Witness ==
    \E e \in ChartDrivers :
        /\ Retired(e)
        /\ Last(RealPositions(e)) = Cardinality(DOMAIN lap_chart.traces)
        /\ Line(e).positions[Len(RealLaps(e)) + 1] = Cardinality(DOMAIN lap_chart.traces)

\* C18: the lap values of every drawn trace never decrease, and every point
\* appended after an entity's real samples has a lap value at least the
\* entity's last real lap.
C18_LapsNonDecreasing ==
    Drawn =>
        \A e \in DOMAIN lap_chart.traces :
            /\ \A a, b \in 1..Len(Line(e).laps) :
                   a <= b => Line(e).laps[a] <= Line(e).laps[b]
            /\ \A k \in 1..Len(Line(e).laps) :
                   k > Len(RealLaps(e)) => Line(e).laps[k] >= LapScale * Last(RealLaps(e))

\* C19: in a team race there is one trace per group id of the lap samples,
\* and each trace consists of exactly that team's real samples, in order,
\* with no point appended: a team that retired at lap r ends at lap r, a team
\* that ran all laps spans them all.
C19_TeamTracesReal ==
    (Drawn /\ TeamChart) =>
        /\ DOMAIN lap_chart.traces
               = {lap_chart.lap_data[k].group_id : k \in 1..Len(lap_chart.lap_data)}
        /\ \A g \in DOMAIN lap_chart.traces :
               /\ Line(g).laps = [k \in 1..Len(RealLaps(g)) |-> LapScale * RealLaps(g)[k]]
               /\ Line(g).positions = RealPositions(g)

\* a team race in which one team retired before the end and the other ran
\* every lap
C19_Witness ==
    /\ Drawn /\ TeamChart
    /\ \E g, h \in DOMAIN lap_chart.traces :
           /\ Last(Line(g).laps) < LapScale * max_lap(lap_chart.lap_data)
           /\ Len(Line(h).laps) = MaxLap
           /\ Last(Line(h).laps) = LapScale * MaxLap

HasRaceSession ==
    \E k \in 1..Len(lap_chart.session_results) :
        lap_chart.session_results[k].simsession_name = "RACE"

\* the highlighted driver is in the classification: a row of an individual
\* race, a member of a team's driver_results in a team race
HighlightedClassified ==
    \E k \in 1..Len(lap_chart.results) :
        IF "driver_results" \in DOMAIN lap_chart.results[k]
        THEN lap_chart.highlighted_cust_id \in lap_chart.results[k].driver_results
        ELSE lap_chart.results[k].cust_id = lap_chart.highlighted_cust_id

\* C21 as stated: a run of the chart generation on a result without a RACE
\* session, or with a highlighted driver that no entry of the classification
\* matches, returns False
C21_FailureOnBadInput ==
    (Drawn /\ (~HasRaceSession \/ ~HighlightedClassified)) => lap_chart.returned = "False"

(***************************************************************************)
(* Claims about the car cache                                              *)
(***************************************************************************)
\* a catalog is cached and its refresh time is less than an hour back
CatalogFresh == cars_cache # None /\ now < cars_cache_time + 3600

\* the thread of slot i calls get_cached_cars in this step: its result call
\* has returned the subsession with the driver in it
CallsGetCachedCars(i, r) ==
    CallReply(i, r) /\ jobs[i].stage = "result" /\ r.kind = "ok" /\ r.good

\* the thread of slot i sends get_cars, or the OAuth request before it, in this step
FetchesCars(i) == jobs'[i].stage = "cars" /\ jobs[i].stage # "cars"

\* C22: a get_cached_cars call made while a catalog is cached whose refresh
\* time t satisfies now < t + 3600 returns the cached catalog at once, sends
\* nothing to the provider and leaves catalog and refresh time as they are;
\* so a cached catalog is replaced no earlier than 3600 seconds after its
\* refresh time.
C22_CarsOncePerWindow ==
    /\ [][\A i \in Slots, r \in CallReplies :
            (CallsGetCachedCars(i, r) /\ CatalogFresh) =>
                /\ jobs'[i].pc = "done"
                /\ jobs'[i].cars = cars_cache
                /\ cars_cache' = cars_cache /\ cars_cache_time' = cars_cache_time]_vars
    /\ [][\A i \in Slots : FetchesCars(i) => ~CatalogFresh]_vars
    /\ [][(cars_cache # None /\ cars_cache_time' # cars_cache_time) =>
             cars_cache_time' >= cars_cache_time + 3600]_vars

\* C22 witness: the catalog fetched for the first race, at time 0, has served
\* the formatting of the second race half an hour later
C22_Witness ==
    \E i \in Slots :
        /\ jobs[i].fn = "raceAndDriverData" /\ jobs[i].pc = "done"
        /\ jobs[i].race = "T2" /\ jobs[i].cars = "cars"
        /\ posted[<< "u1", "c1" >>].t = "T1"
        /\ cars_cache_time = 0 /\ now = 1800

\* what is cached before the step, an empty list if nothing is
CachedOrEmpty == IF cars_cache # None THEN cars_cache ELSE "[]"

\* get_cached_cars returns in this step to the thread of slot i without a
\* refresh: what was cached, and the cache as it was
ServesStale(i) ==
    /\ jobs'[i].pc = "done" /\ jobs'[i].result # "raise"
    /\ jobs'[i].cars = CachedOrEmpty
    /\ cars_cache' = cars_cache /\ cars_cache_time' = cars_cache_time

\* C23: get_cached_cars never raises; when the cache is not fresh and no
\* client is to be had (the tracker limited, the OAuth exchange failed) or
\* the get_cars call fails, it returns what was cached, or an empty list if
\* nothing was, and leaves the cached catalog and its refresh time unchanged.
C23_StaleNotFailing ==
    /\ [](\A i \in Slots : jobs[i].result # "raise")
    /\ [][\A i \in Slots, r \in CallReplies :
            (CallsGetCachedCars(i, r) /\ ~CatalogFresh /\ now < rate_limit_until) =>
                ServesStale(i)]_vars
    /\ [][\A i \in Slots, r \in OAuthReplies :
            (OAuthReply(i, r) /\ jobs[i].stage = "cars" /\ r.kind # "ok") =>
                ServesStale(i)]_vars
    /\ [][\A i \in Slots, r \in CallReplies :
            (CallReply(i, r) /\ jobs[i].stage = "cars" /\ r.kind \notin {"ok", "empty"}) =>
                \/ ServesStale(i)
                \/ /\ jobs'[i].pc \in {"retry", "reauth"} /\ jobs'[i].stage = "cars"
                   /\ cars_cache' = cars_cache /\ cars_cache_time' = cars_cache_time]_vars

\* C23 witness: in a cycle begun an hour or more after the catalog was
\* fetched, with the tracker limited, the formatting got the old catalog
C23_Witness ==
    \E i \in Slots :
        /\ jobs[i].fn = "raceAndDriverData" /\ jobs[i].pc = "done" /\ jobs[i].cars = "cars"
        /\ sched.pc = "wait_fmt" /\ sched.next_iteration = now + 60
        /\ cars_cache = "cars" /\ cars_cache_time = 0 /\ now >= 3600
        /\ now < rate_limit_until

(***************************************************************************)
(* Claims about the table of subscriptions                                 *)
(***************************************************************************)
\* the rows of the table that belong to the pair (u, c)
RowsOf(db, u, c) == {k \in 1..Len(db) : db[k].user_id = u /\ db[k].channel_id = c}

\* C24: the table never holds two rows for one (user_id, channel_id); an
\* addUser whose driver was found reports success; for a pair that has a row
\* it leaves the table as it is (no row inserted, last_race_time kept), for a
\* pair without a row it appends one row, with no last_race_time, and
\* leaves the other rows as they are.
C24_OneRowPerPair ==
    /\ [](\A u \in Users, c \in Channels : Cardinality(RowsOf(user_channels, u, c)) <= 1)
    /\ [][\A i \in Slots :
            (AddUserDone(i) /\ jobs[i].result = "ok") =>
                /\ ev'.kind = "added"
                /\ IF RowsOf(user_channels, cmd.user, cmd.channel) # {}
                   THEN user_channels' = user_channels
                   ELSE /\ Len(user_channels') = Len(user_channels) + 1
                        /\ \A k \in 1..Len(user_channels) : user_channels'[k] = user_channels[k]
                        /\ user_channels'[Len(user_channels')] =
                               [user_id |-> cmd.user, channel_id |-> cmd.channel,
                                last_race_time |-> "none"]]_vars

\* C24 witness: a pair added a second time after a race of its was persisted,
\* next to the row of another user
C24_Witness ==
    /\ ev.kind = "added" /\ ev.user = "u1"
    /\ Len(user_channels) = 2
    /\ \E k \in RowsOf(user_channels, "u1", "c1") : user_channels[k].last_race_time = "T1"

\* C25: a subscription's last_race_time changes only in the step in which
\* the scheduler's getLastRaceIfNew for that pair returns a race, and then
\* to that race's timestamp; addUser, removeUser of another pair, postRace
\* and a poll that returns no race leave it as it is.
C25_OnlyDetectionWrites ==
    /\ [][\A u \in Users, c \in Channels :
            (/\ Subscribed(user_channels, u, c) /\ Subscribed(user_channels', u, c)
             /\ PersistedTime(user_channels', u, c) # PersistedTime(user_channels, u, c)) =>
                \E i \in Slots :
                    /\ Returns(i, "getLastRaceIfNew") /\ jobs[i].owner = "sched"
                    /\ jobs[i].user = u /\ jobs[i].channel = c
                    /\ jobs'[i].result = "ok"
                    /\ PersistedTime(user_channels', u, c) = jobs'[i].race]_vars
    /\ [][\A i \in Slots :
            (Returns(i, "getLastRaceIfNew") /\ jobs'[i].result # "ok") =>
                user_channels' = user_channels]_vars
    /\ [][(ev'.kind \in {"post_race_error", "post_race_invalid"}) =>
             user_channels' = user_channels]_vars

\* C25 witness: postRace has run, and so has an addUser, on a table in which
\* a race of the pair was persisted
C25_Witness ==
    /\ ev.kind = "post_race_error"
    /\ PersistedTime(user_channels, "u1", "c1") = "T1"
    /\ cmd.issued >= 2

(***************************************************************************)
(* Claims about the rate-limit tracker and the session                     *)
(***************************************************************************)
\* C26 as stated: while a limit recorded from an OAuth reply lasts, the
\* query of the API module and the query the chart generator makes both
\* report limited, with the same remaining time
C26_OneTracker ==
    (now < rate_limit_until) =>
        /\ is_rate_limited(rate_limit_until, now)
        /\ is_rate_limited(aw_rate_limit_until, now)
        /\ get_rate_limit_remaining(aw_rate_limit_until, now)
               = get_rate_limit_remaining(rate_limit_until, now)

\* C27 as stated: when a data call ends with AccessTokenInvalid or
\* JSONDecodeError and the function that made it returns on that, the
\* manager holds no handle, no token and no wrapper afterwards
C27_FaultInvalidates ==
    [][\A i \in Slots, r \in CallsOneRace :
          (CallReply(i, r) /\ r.kind \in {"token", "json"} /\ jobs'[i].pc = "done") =>
              client' = None /\ token' = None /\ wrapped_client' = None]_vars

(***************************************************************************)
(* C28: blockedUntil (rate_limit_until) and resetAt (rate_limit_reset)     *)
(* change only in the step in which an OAuth exchange is answered with a   *)
(* 401 whose error_description contains "rate limit exceeded"; every other *)
(* answer of the OAuth endpoint, and every other step (clearing the        *)
(* client, re-authentication, data calls, polls, commands, the clock),     *)
(* leaves both as they were.                                               *)
(***************************************************************************)
ThrottleAnswered ==
    \E i \in Slots, r \in OAuthReplies : r.kind = "rate_limit" /\ OAuthReply(i, r)

C28_OnlyThrottleReplyWrites ==
    [][ /\ (rate_limit_until' # rate_limit_until \/ rate_limit_reset' # rate_limit_reset)
            => ThrottleAnswered
        /\ \A i \in Slots, r \in OAuthReplies :
              (OAuthReply(i, r) /\ r.kind # "rate_limit")
                  => UNCHANGED << rate_limit_until, rate_limit_reset >> ]_vars

\* A limit was recorded, and an exchange that was in flight beside it was
\* answered with a token afterwards: the handle is there, the limit intact.
C28_Witness ==
    /\ rate_limit_until > 0
    /\ rate_limit_reset > 0
    /\ client # None
    /\ token # None

(***************************************************************************)
(* C29: across any sequence of operations blockedUntil (rate_limit_until)  *)
(* and resetAt (rate_limit_reset) never decrease, and in every reachable   *)
(* state blockedUntil is its initial value (0) or exactly resetAt + 10.    *)
(***************************************************************************)
Buffered ==
    rate_limit_until = 0 \/ rate_limit_until = rate_limit_reset + RateLimitBuffer

NonDecreasing ==
    rate_limit_until' >= rate_limit_until /\ rate_limit_reset' >= rate_limit_reset

C29_MonotoneAndBuffered == [] Buffered /\ [][NonDecreasing]_vars

(***************************************************************************)
(* C30: throttling is not permanent.  If the provider sends no further     *)
(* rate-limit responses, then after now reaches blockedUntil a later wake  *)
(* of the scheduler eventually runs a cycle that scans the subscriptions   *)
(* and sends requests to the provider again, and a new race that cycle     *)
(* finds is eventually posted.                                             *)
(***************************************************************************)
\* a limit was recorded and its block is over
BlockOver == rate_limit_until > 0 /\ now >= rate_limit_until

\* the loop's next wake falls within the run
WakeAhead == sched.next_iteration <= MaxTimeRecovery

\* the scheduler waits for that wake
WakePending == sched.pc = "idle" /\ WakeAhead

\* a request of the scheduler's poll is on its way to the provider
FetchInFlight ==
    \E i \in Slots : jobs[i].owner = "sched" /\ jobs[i].pc \in {"oauth", "call"}

\* the poll has come back with a new race; with the scheduler's jobs run one
\* after the other and a limit recorded, that poll began after the block
Detected ==
    /\ sched.pc = "wait_race"
    /\ \E i \in Slots : /\ jobs[i].pc = "done" /\ jobs[i].owner = "sched"
                        /\ jobs[i].fn = "getLastRaceIfNew" /\ jobs[i].result = "ok"

RacePosted == posted[<< "u1", "c1" >>].t # None

\* the race's message could not be built, or Discord did not take it
RaceDropped == ev.kind \in {"format_failed", "send_failed"}

RECURSIVE SumSeq(_)
SumSeq(q) == IF q = << >> THEN 0 ELSE Head(q) + SumSeq(Tail(q))

Retried == decorated.deco = "retry_on_transient_error"

\* the wrapper gave up on a transient error
Exhausted == Retried /\ decorated.pc = "raised" /\ decorated.result = "transient"

C31_RetriesAsDocumented ==
    Retried =>
        /\ Len(decorated.sleeps) <= decorated.max_retries
        /\ \A k \in 1..Len(decorated.sleeps) :
              decorated.sleeps[k] = decorated.base_delay * Pow2(k - 1)
        /\ decorated.result = "runtime" =>
              decorated.pc = "raised" /\ Len(decorated.sleeps) = decorated.calls - 1
        /\ Exhausted => Len(decorated.sleeps) = decorated.max_retries
        /\ (Exhausted /\ decorated.max_retries = DefaultMaxRetries
                      /\ decorated.base_delay = DefaultBaseDelay)
              => SumSeq(decorated.sleeps) \in 840..960

(***************************************************************************)
(* C32: rate_limit_handler always terminates.  In one call the wrapped     *)
(* coroutine is invoked at most 3 times; after each RateLimitError the     *)
(* wrapper sleeps exactly seconds_remaining + 5; an invocation that        *)
(* succeeds returns its result at once; and when every invocation raised   *)
(* RateLimitError the wrapper raises RateLimitError instead of going on.   *)
(***************************************************************************)
Handled == decorated.deco = "rate_limit_handler"

WrapperLeft == decorated.pc \in {"returned", "raised"}

C32_HandlerBounded ==
    Handled =>
        /\ decorated.calls <= 3
        /\ Len(decorated.sleeps) = Len(decorated.errors)
        /\ \A k \in 1..Len(decorated.errors) : decorated.sleeps[k] = decorated.errors[k] + 5
        /\ decorated.result = "value" =>
              decorated.pc = "returned" /\ Len(decorated.sleeps) = decorated.calls - 1
        /\ (WrapperLeft /\ Len(decorated.errors) = decorated.calls) =>
              decorated.pc = "raised" /\ decorated.result = "rate_limit" /\ decorated.calls = 3

C32_HandlerTerminates == [] C32_HandlerBounded /\ <> WrapperLeft

\* three invocations raised RateLimitError, each followed by its sleep, and
\* the wrapper raised
C32_Witness ==
    /\ Handled
    /\ decorated.pc = "raised"
    /\ decorated.result = "rate_limit"
    /\ decorated.calls = 3
    /\ decorated.sleeps = << 70, 5, 70 >>

(***************************************************************************)
(* C33: in an individual race, the trace of every entity that has an       *)
(* official finish position ends with a point at lap maxLap that holds     *)
(* exactly that position, whether the entity retired, finished and was     *)
(* reclassified, or finished where its last lap left it.                   *)
(***************************************************************************)
Classified(e) ==
    /\ Drawn /\ ~TeamChart
    /\ e \in DOMAIN lap_chart.traces
    /\ e \in DOMAIN Official

Reclassified(e) ==
    /\ Classified(e) /\ ~Retired(e)
    /\ Last(RealPositions(e)) # Official[e]

FinishedInPlace(e) ==
    /\ Classified(e) /\ ~Retired(e)
    /\ Last(RealPositions(e)) = Official[e]

C33_EndsAtOfficialResult ==
    \A e \in ChartDrivers :
        Classified(e) =>
            /\ Last(Line(e).laps) = LapScale * max_lap(lap_chart.lap_data)
            /\ Last(Line(e).positions) = Official[e]

\* one race with an entity of each kind
C33_Witness ==
    /\ \E e \in ChartDrivers : Retired(e) /\ Last(RealPositions(e)) # Official[e]
    /\ \E e \in ChartDrivers : Reclassified(e)
    /\ \E e \in ChartDrivers : FinishedInPlace(e)

(***************************************************************************)
(* C34: when chart generation signals failure for a detected race, the     *)
(* scheduler still posts the textual summary of that race and attaches no  *)
(* image; an image is attached only when the chart generation of the same  *)
(* pipeline run returned success.                                          *)
(***************************************************************************)
ChartJobReturned(i, res) ==
    /\ sched.pc = "wait_chart"
    /\ SchedJobDone(i, TRUE, TRUE)
    /\ jobs[i].result = res

C34_TextWithoutChart ==
    [][ /\ \A i \in Slots :
              ChartJobReturned(i, "none") =>
                  /\ sched'.pc = "posting" /\ ~sched'.chart
                  /\ sched'.last_race = sched.last_race
        /\ (sched.pc = "posting" /\ ~sched.chart /\ sched'.pc # "posting") =>
              /\ ev'.kind = "post" /\ ev'.image = None
              /\ posted'[<< sched.user, sched.channel >>].t = sched.last_race
        /\ ev'.image # None => sched.pc = "posting" /\ sched.chart
        /\ (sched'.pc = "posting" /\ sched'.chart /\ sched.pc # "posting") =>
              \E i \in Slots : ChartJobReturned(i, "ok") ]_vars

\* the summary of a detected race went out without an image
C34_Witness ==
    /\ ev.kind = "post"
    /\ ev.image = None
    /\ ev.race = "T1"
    /\ posted[<< "u1", "c1" >>].t = "T1"

(***************************************************************************)
(* C35: when a call through the wrapper is rejected with AccessTokenInvalid *)
(* and the wrapper's login() takes its token from the Token Cache (the      *)
(* retry is sent without an OAuth exchange), the handle of the retry is     *)
(* built on a token other than the one the rejected handle carried.         *)
(***************************************************************************)
RejectedAndRetried(i) ==
    /\ jobs[i].pc = "call" /\ jobs[i].w # None
    /\ CallReply(i, [kind |-> "token", race |-> None, good |-> FALSE])
    /\ jobs'[i].pc = "retry"

C35_RejectedTokenNotServedAgain ==
    [][ \A i \in Slots :
          RejectedAndRetried(i) => access_token'[jobs'[i].h] # access_token[jobs[i].h] ]_vars

(***************************************************************************)
(* C36: once an OAuth exchange of this process has stored a token whose     *)
(* expiry is still ahead, no thread of the process sends another OAuth      *)
(* request: an acquisition started without a handle, and the wrapper's      *)
(* login() after a rejected call, take the stored token.                    *)
(***************************************************************************)
\* the .env file differs from the environment loaded at start: an exchange of
\* this process wrote it
StoredInProcess ==
    /\ file_token # env_token
    /\ file_token.token # None /\ file_token.parsable /\ now < file_token.expires

C36_StoredTokenServed ==
    [][ \A i \in Slots :
          (StoredInProcess /\ jobs[i].pc \in {"start", "call"}) =>
              /\ jobs'[i].pc \notin {"oauth", "reauth"}
              /\ (client = None /\ client' # None) => token' = file_token.token ]_vars

(***************************************************************************)
(* C37: the image attached to a posted race, by the scheduler or by a       *)
(* postRace command, is the chart of that race: race_plot.png is not        *)
(* overwritten by another run between savefig and open.                     *)
(***************************************************************************)
C37_ImageOfSameRace == ev.image # None => ev.image = ev.race

(***************************************************************************)
(* C38: the scheduler posts a race of a user to a channel only while the    *)
(* pair is subscribed: after removeUser, and until the pair is added again, *)
(* no poll of the pair ends in a post, also not the poll of a cycle that    *)
(* had listed the user before the removal.                                  *)
(***************************************************************************)
C38_NoPostAfterRemoval ==
    ev.kind = "post" => HasRow(user_channels, ev.user, ev.channel)

(***************************************************************************)
(* C39: in every reachable state the manager's cached wrapper comes with a  *)
(* cached handle and token, a cached handle comes with a cached token, and  *)
(* the cached wrapper wraps the manager's current handle.                   *)
(***************************************************************************)
C39_ManagerConsistent ==
    /\ wrapped_client # None => client # None /\ token # None
    /\ client # None => token # None
    /\ wrapped_client # None => wrappers[wrapped_client] = client

(***************************************************************************)
(* C40: the poll of (user, channel) writes its race's timestamp to that     *)
(* pair's row and leaves every other row as it is; it reports the race as   *)
(* new exactly when it differs from what its own row held, whatever the     *)
(* user's rows of other channels hold; and a race is posted to a channel    *)
(* only if it is not the race posted there last.                            *)
(***************************************************************************)
PollAnswered(i, r) ==
    jobs[i].pc = "call" /\ jobs[i].stage = "recent" /\ r.kind = "ok" /\ CallReply(i, r)

C40_PerChannelRecord ==
    [][ /\ \A i \in Slots, r \in CallsAnswered :
             PollAnswered(i, r) =>
                 /\ \A p \in Pairs \ {<< jobs[i].user, jobs[i].channel >>} :
                        RowState(user_channels', p) = RowState(user_channels, p)
                 /\ get_last_race_time(user_channels', jobs[i].user, jobs[i].channel) = r.race
                 /\ (jobs'[i].result = "ok") <=>
                        (get_last_race_time(user_channels, jobs[i].user, jobs[i].channel)
                            # r.race)
        /\ (sched.pc = "posting" /\ ev'.kind = "post") =>
               posted[<< sched.user, sched.channel >>].t # ev'.race ]_vars

\* C40 witness: the race already posted to c1 has just been posted to c2
C40_Witness ==
    /\ ev.kind = "post" /\ ev.user = "u1" /\ ev.channel = "c2" /\ ev.race = "T1"
    /\ posted[<< "u1", "c1" >>].t = "T1"
    /\ get_last_race_time(user_channels, "u1", "c1") = "T1"
    /\ get_last_race_time(user_channels, "u1", "c2") = "T1"

====
